---------------------------- MODULE Spec2Model ----------------------------
(***************************************************************************)
(* A model of the relocation engine of elf_loader (src/src/relocation.rs)  *)
(* and of the image types of src/src/lib.rs.                               *)
(*                                                                         *)
(* An unrelocated image (ElfDylib) is relocated by any number of calls of  *)
(* relocate / relocate_with and then consumed by finish.  Every call is    *)
(* one action of the model; the two relocation arrays, their bitmaps and   *)
(* stages, the words of the mapped image that relocation writes, the       *)
(* dependency list and the functions the engine calls are the state.       *)
(*                                                                         *)
(* Machine words: TLC has no 64-bit naturals, so a word is written as the  *)
(* small integer it holds and a wrapped result (wrapping_sub) as the       *)
(* signed representative of its residue modulo 2^64.                       *)
(***************************************************************************)
EXTENDS Integers, Sequences, FiniteSets, TLC

\* ------------------------------------------------------------------ bounds
\* the largest number of relocate / relocate_with calls made on one image
MaxCalls == 2
\* the largest length of the libs slice given to one call
MaxLibs == 2
\* the entries of the longest relocation array of an image under load
MaxEntries == 34

\* ------------------------------------------------------- program constants
\* elf::abi, as used by relocation.rs
SHN_UNDEF == 0
STT_GNU_IFUNC == 10
STT_FUNC == 2
STT_OBJECT == 1
STT_TLS == 6
\* src/src/arch/riscv64.rs
REL_RELATIVE == 3
\* u32::MAX, written as its signed 32-bit representative
REL_GOT == -1
REL_DTPMOD == 7
REL_SYMBOLIC == 2
REL_JUMP_SLOT == 5
REL_DTPOFF == 9
TLS_DTV_OFFSET == 2048
\* a relocation type the engine has no arm for (R_RISCV_IRELATIVE)
REL_OTHER == 58
\* the width of one unit of BitMap (Vec<u32>)
UnitBits == 32

\* ------------------------------------------------------------ Option<T>
None == [some |-> FALSE]
Some(x) == [some |-> TRUE, v |-> x]

\* Option::or
OptOr(a, b) == IF a.some THEN a ELSE b

\* the element of a one-element set: { e } is evaluated once, so that a value
\* that is used several times is not computed several times
Only(S) == CHOOSE x \in S : TRUE

\* ---------------------------------------------------------------- symbols
\* ElfSymbol: the fields the engine reads
Sym(name, shndx, value, info) ==
    [st_name |-> name, st_shndx |-> shndx, st_value |-> value, st_info |-> info]

\* ElfRela: r_type(), r_symbol(), r_offset(), r_addend()
Rela(type, sym, offset, addend) ==
    [r_type |-> type, r_sym |-> sym, r_offset |-> offset, r_addend |-> addend]

\* the names the symbol tables and the resolvers speak about; "" is the name
\* the dynamic handler passes to the resolver for an entry with r_sym = 0
Names == {"", "f", "g", "h", "t", "missing_sym"}

\* ------------------------------------------------- the dependency images
\* A RelocatedDylib a caller can pass in libs: its base (segments.base()),
\* its defined symbols and its TLS module id (Dylib.tls).
LibIds == {"libA", "libB"}

Lib(id) ==
    IF id = "libA"
    THEN [name |-> "libA", base |-> 65536, tls |-> Some(2),
          syms |-> << Sym("f", 1, 256, 16 + STT_FUNC),
                      Sym("g", 1, 512, 16 + STT_GNU_IFUNC),
                      Sym("t", 1, 16, 16 + STT_TLS) >>]
    ELSE [name |-> "libB", base |-> 131072, tls |-> Some(3),
          syms |-> << Sym("f", 1, 768, 16 + STT_FUNC),
                      Sym("g", 1, 1536, 16 + STT_FUNC),
                      Sym("h", 1, 1024, 16 + STT_OBJECT),
                      Sym("missing_sym", 1, 1280, 16 + STT_FUNC),
                      Sym("t", 1, 4096, 16 + STT_TLS) >>]

\* what the function at address addr returns when an IFUNC symbol is called
IfuncCall(addr) == 3 * addr + 1

\* --------------------------------------------------- the images under load
\* symtab[i] is the dynamic symbol of index i (index 0 is the null symbol)
SymTab ==
    << Sym("f", SHN_UNDEF, 0, 16 + STT_FUNC),
       Sym("g", SHN_UNDEF, 0, 16 + STT_FUNC),
       Sym("h", 1, 64, 16 + STT_OBJECT),
       Sym("missing_sym", SHN_UNDEF, 0, 16 + STT_FUNC),
       Sym("t", SHN_UNDEF, 0, 16 + STT_TLS) >>

ImageBase == 4096

Image(name, plt, dyn, tls, init, init_array, relro) ==
    [name |-> name, base |-> ImageBase, symtab |-> SymTab,
     pltrel |-> plt, dynrel |-> dyn, tls |-> tls,
     init_fn |-> init, init_array_fn |-> init_array, relro |-> relro]

\* The unrelocated images the loader can hand to the engine.  r_offset is
\* distinct for every entry of an image, as in a linked object.
Images ==
    { Image("both.so",
            Some(<< Rela(REL_JUMP_SLOT, 1, 16, 12) >>),
            Some(<< Rela(REL_RELATIVE, 0, 32, 512),
                    Rela(REL_SYMBOLIC, 2, 40, 8),
                    Rela(REL_GOT, 3, 48, 0) >>),
            None, Some("init"), Some(<< "ia0", "ia1" >>), TRUE),
      Image("missing.so",
            None,
            Some(<< Rela(REL_GOT, 4, 32, 0) >>),
            None, None, None, FALSE),
      Image("pltonly.so",
            Some(<< Rela(REL_JUMP_SLOT, 1, 16, 4),
                    Rela(REL_JUMP_SLOT, 3, 24, 0) >>),
            None,
            None, Some("init"), None, TRUE),
      Image("pltmiss.so",
            Some(<< Rela(REL_JUMP_SLOT, 4, 16, 0) >>),
            Some(<< Rela(REL_RELATIVE, 0, 32, 520),
                    Rela(REL_SYMBOLIC, 1, 40, 8) >>),
            None, None, Some(<< "ia0" >>), FALSE),
      Image("empty.so",
            Some(<< >>),
            Some(<< Rela(REL_RELATIVE, 0, 32, 528) >>),
            None, None, Some(<< >>), FALSE),
      Image("tls.so",
            None,
            Some(<< Rela(REL_DTPMOD, 0, 32, 0),
                    Rela(REL_DTPOFF, 5, 40, 0),
                    Rela(REL_DTPMOD, 5, 48, 0) >>),
            Some(1), None, None, FALSE),
      Image("other.so",
            Some(<< Rela(REL_OTHER, 1, 16, 0) >>),
            Some(<< Rela(REL_RELATIVE, 0, 32, 536),
                    Rela(REL_OTHER, 0, 40, 0) >>),
            None, Some("init"), None, FALSE),
      Image("nosym.so",
            Some(<< Rela(REL_JUMP_SLOT, 0, 16, 0) >>),
            Some(<< Rela(REL_GOT, 0, 32, 0) >>),
            None, None, None, FALSE),
      \* an array longer than one unit of the bitmap: the entries that need
      \* a symbol are the last of the first unit and the first of the second
      Image("wide.so",
            None,
            Some([i \in 1 .. MaxEntries |->
                     IF i = UnitBits THEN Rela(REL_GOT, 1, 8 + 8 * i, 0)
                     ELSE IF i = UnitBits + 1 THEN Rela(REL_GOT, 4, 8 + 8 * i, 0)
                     ELSE Rela(REL_RELATIVE, 0, 8 + 8 * i, 544 + 8 * i)]),
            None, None, None, FALSE) }

\* the words of the mapped image, before any relocation, at the offsets
\* relocation entries point to
Offsets == { 8 + 8 * i : i \in 1 .. MaxEntries }
FileWord(o) == o + 1

\* ------------------------------------------------------------- resolvers
\* The closure given to relocate_with, as the function it computes.
\* relocate itself passes |_| None.
NoResolver == [n \in Names |-> None]

Resolvers ==
    { [n \in Names |-> IF n = "f" THEN Some(36864) ELSE None],
      [n \in Names |-> IF n = "missing_sym" THEN Some(40960)
                        ELSE IF n = "h" THEN Some(45056)
                        ELSE IF n = "g" THEN Some(49152) ELSE None],
      [n \in Names |-> IF n = "t" THEN Some(53248)
                        ELSE IF n = "" THEN Some(57344) ELSE None] }

\* ----------------------------------------------------------------- BitMap
\* A unit (u32) is the set of its bit positions that are 1.
AllOnes == 0 .. (UnitBits - 1)

\* BitMap::new: (size + 31) / 32 units, every bit set
BitMap_new(size) == [u \in 1 .. ((size + 31) \div UnitBits) |-> AllOnes]

\* BitMap::unit_count
unit_count(bitmap) == Len(bitmap)

\* BitMap::unit (the caller has checked index < unit_count)
unit(bitmap, index) == bitmap[index + 1]

\* faulty variant, for sensitivity: the bit is left as it is
BitMap_set_nothing(bitmap, bit_index) == bitmap

\* BitMap::set
BitMap_set(bitmap, bit_index) ==
    [bitmap EXCEPT ![(bit_index \div UnitBits) + 1] = @ \cup {bit_index % UnitBits}]

\* BitMap::clear
BitMap_clear(bitmap, bit_index) ==
    [bitmap EXCEPT ![(bit_index \div UnitBits) + 1] = @ \ {bit_index % UnitBits}]

\* faulty variant, for sensitivity: the position of the highest 0 bit
leading_zero(u) ==
    IF u = AllOnes THEN UnitBits
    ELSE CHOOSE i \in AllOnes \ u : \A j \in AllOnes \ u : i >= j

\* u32::trailing_ones: the position of the lowest 0 bit, 32 when there is none
trailing_ones(u) ==
    IF u = AllOnes THEN UnitBits
    ELSE CHOOSE i \in AllOnes \ u : \A j \in AllOnes \ u : i <= j

\* is bit bit_index of the bitmap set
BitIsSet(bitmap, bit_index) ==
    (bit_index % UnitBits) \in bitmap[(bit_index \div UnitBits) + 1]

\* ElfRelocation::new: the state of one array before any relocate call
NewArray(array) ==
    [array |-> array,
     state |-> [relocated |-> BitMap_new(Len(array)), stage |-> "Init"]]

ElfRelocation_new(pltrel, dynrel) ==
    [pltrel |-> IF pltrel.some THEN Some(NewArray(pltrel.v)) ELSE None,
     dynrel |-> IF dynrel.some THEN Some(NewArray(dynrel.v)) ELSE None]

\* --------------------------------------------------------- BitMapIterator
\* BitMapIterator::new reads unit(0): it panics on a bitmap without units
BitMapIterator_new_panics(state) == unit_count(state.relocated) = 0

BitMapIterator_new(state) == [cur_bit |-> unit(state.relocated, 0), index |-> 0]

\* BitMapIterator::next: None, or the iterator after the step and the index
\* it yields (the lowest 0 bit of cur_bit, which it then sets in cur_bit)
RECURSIVE BitMapIterator_next(_, _)
BitMapIterator_next(iter, state) ==
    LET idx == trailing_ones(iter.cur_bit) IN
    IF idx = UnitBits
    THEN IF iter.index + 1 = unit_count(state.relocated)
         THEN None
         ELSE BitMapIterator_next(
                  [cur_bit |-> unit(state.relocated, iter.index + 1),
                   index |-> iter.index + 1], state)
    ELSE Some([iter |-> [cur_bit |-> iter.cur_bit \cup {idx}, index |-> iter.index],
               idx |-> iter.index * UnitBits + idx])

\* the indices a fresh iterator yields over an unchanging state, in order
RECURSIVE IterIndices(_, _)
IterIndices(iter, state) ==
    LET n == BitMapIterator_next(iter, state) IN
    IF n.some THEN << n.v.idx >> \o IterIndices(n.v.iter, state) ELSE << >>

\* ------------------------------------------------------ symbol resolution
\* SymbolData::rel_symbol: the dynamic symbol of index r_sym and its name
rel_symbol(img, r_sym) == img.symtab[r_sym]

\* SymbolData::get_sym: the symbol the library's index finds for a name
get_sym(lib, name) ==
    IF \E i \in 1 .. Len(lib.syms) : lib.syms[i].st_name = name
    THEN Some(lib.syms[CHOOSE i \in 1 .. Len(lib.syms) :
                          /\ lib.syms[i].st_name = name
                          /\ \A j \in 1 .. Len(lib.syms) :
                                 lib.syms[j].st_name = name => i <= j])
    ELSE None

SymDef(sym, base, tls) == [sym |-> sym, base |-> base, tls |-> tls]

\* faulty variant, for sensitivity: a loop without the break: the last library that defines the name
RECURSIVE last_lib_def(_, _)
last_lib_def(libs, name) ==
    IF libs = << >> THEN None
    ELSE LET lib  == Lib(Head(libs))
             sym  == get_sym(lib, name)
             rest == last_lib_def(Tail(libs), name)
         IN IF rest.some THEN rest
            ELSE IF sym.some THEN Some(SymDef(sym.v, lib.base, lib.tls)) ELSE None

\* the loop of find_symdef: the first library of libs that defines the name
RECURSIVE first_lib_def(_, _)
first_lib_def(libs, name) ==
    IF libs = << >> THEN None
    ELSE LET lib == Lib(Head(libs))
             sym == get_sym(lib, name)
         IN IF sym.some
            THEN Some(SymDef(sym.v, lib.base, lib.tls))
            ELSE first_lib_def(Tail(libs), name)

\* find_symdef
find_symdef(img, libs, dynsym) ==
    IF dynsym.st_shndx # SHN_UNDEF
    THEN Some(SymDef(dynsym, img.base, img.tls))
    ELSE first_lib_def(libs, dynsym.st_name)

\* is the symbol of a SymDef an IFUNC (st_info & 0xf)
IsIfunc(symdef) == (symdef.sym.st_info % 16) = STT_GNU_IFUNC

\* faulty variant, for sensitivity: the address of the symbol, whatever its type
SymDefInto_address(symdef) == symdef.base + symdef.sym.st_value

\* impl From<SymDef> for *const (): the pointer a definition converts to
SymDefInto(symdef) ==
    IF ~IsIfunc(symdef)
    THEN symdef.base + symdef.sym.st_value
    ELSE IfuncCall(symdef.base + symdef.sym.st_value)

\* the calls that conversion makes
SymDefCalls(symdef) ==
    IF IsIfunc(symdef)
    THEN << [ev |-> "ifunc", arg |-> symdef.base + symdef.sym.st_value] >>
    ELSE << >>

\* usize::wrapping_sub, as the signed representative of the result
wrapping_sub(a, b) == a - b

\* ------------------------------------------------------------ the handlers
\* A pass threads st = [state, mem, trace, panic]: the RelocateState of the
\* array, the words of the image, the calls made so far, and whether the
\* pass has panicked.

\* faulty variant, for sensitivity: the bit is cleared but the stage stays as it is
deal_fail_keeps_stage(idx, state) ==
    [relocated |-> BitMap_clear(state.relocated, idx), stage |-> state.stage]

\* faulty variant, for sensitivity: the array is unfinished but the bit stays set
deal_fail_keeps_bit(idx, state) ==
    [relocated |-> state.relocated, stage |-> "Relocating"]

\* deal_fail: clear the entry's bit, the array is unfinished
deal_fail(idx, state) ==
    [relocated |-> BitMap_clear(state.relocated, idx), stage |-> "Relocating"]

\* ElfDylib::write_val: the word at base + offset
write_val(img, mem, offset, val) == [mem EXCEPT ![img.base + offset] = val]

\* faulty variant, for sensitivity: the definition first, the resolver as a fallback
lookup_symbol_definition_first(find_symbol, name, symdef) ==
    OptOr(IF symdef.some THEN Some(SymDefInto(symdef.v)) ELSE None,
          find_symbol[name])

\* find_symbol(name).or(symdef.map(|symdef| symdef.into()))
lookup_symbol(find_symbol, name, symdef) ==
    OptOr(find_symbol[name],
          IF symdef.some THEN Some(SymDefInto(symdef.v)) ELSE None)

\* .or() evaluates its argument first: a found definition is converted (and
\* an IFUNC called) whether or not the resolver supplies the name
lookup_calls(symdef) == IF symdef.some THEN SymDefCalls(symdef.v) ELSE << >>

\* faulty variant, for sensitivity: S + A for a JUMP_SLOT entry
jump_slot_val_with_addend(rela, symbol) == symbol + rela.r_addend

\* the value a JUMP_SLOT entry stores
jump_slot_val(rela, symbol) == symbol

\* the value a GLOB_DAT or SYMBOLIC entry stores
symbolic_val(rela, symbol) == symbol + rela.r_addend

\* faulty variant, for sensitivity: the addend without the base
relative_val_no_base(img, rela) == rela.r_addend

\* the value a RELATIVE entry stores
relative_val(img, rela) == img.base + rela.r_addend

\* the closure relocate_impl gives to the PLT array
PltHandler(img, libs, find_symbol, rela, idx, st) ==
    IF rela.r_sym = 0
    THEN [st EXCEPT !.panic = TRUE]
    ELSE LET dynsym == rel_symbol(img, rela.r_sym)
             symdef == find_symdef(img, libs, dynsym)
             symbol == lookup_symbol(find_symbol, dynsym.st_name, symdef)
             st1    == [st EXCEPT !.trace = @ \o lookup_calls(symdef)]
         IN IF ~symbol.some
            THEN [st1 EXCEPT !.state = deal_fail(idx, @)]
            ELSE IF rela.r_type = REL_JUMP_SLOT
                 THEN [st1 EXCEPT !.mem = write_val(img, @, rela.r_offset,
                                                    jump_slot_val(rela, symbol.v))]
                 ELSE [st1 EXCEPT !.panic = TRUE]

\* the closure relocate_impl gives to the dynamic array
DynHandler(img, libs, find_symbol, rela, idx, st) ==
    LET name   == IF rela.r_sym # 0 THEN rel_symbol(img, rela.r_sym).st_name ELSE ""
        symdef == IF rela.r_sym # 0
                  THEN find_symdef(img, libs, rel_symbol(img, rela.r_sym))
                  ELSE None
    IN CASE rela.r_type \in {REL_GOT, REL_SYMBOLIC} ->
              LET symbol == lookup_symbol(find_symbol, name, symdef)
                  st1    == [st EXCEPT !.trace = @ \o lookup_calls(symdef)]
              IN IF ~symbol.some
                 THEN [st1 EXCEPT !.state = deal_fail(idx, @)]
                 ELSE [st1 EXCEPT !.mem = write_val(img, @, rela.r_offset,
                                                    symbolic_val(rela, symbol.v))]
         [] rela.r_type = REL_RELATIVE ->
              [st EXCEPT !.mem = write_val(img, @, rela.r_offset,
                                           relative_val(img, rela))]
         [] rela.r_type = REL_DTPMOD ->
              IF rela.r_sym # 0
              THEN IF ~symdef.some
                   THEN [st EXCEPT !.state = deal_fail(idx, @)]
                   ELSE IF ~symdef.v.tls.some
                        THEN [st EXCEPT !.panic = TRUE]
                        ELSE [st EXCEPT !.mem = write_val(img, @, rela.r_offset,
                                                          symdef.v.tls.v)]
              ELSE IF ~img.tls.some
                   THEN [st EXCEPT !.panic = TRUE]
                   ELSE [st EXCEPT !.mem = write_val(img, @, rela.r_offset, img.tls.v)]
         [] rela.r_type = REL_DTPOFF ->
              IF ~symdef.some
              THEN [st EXCEPT !.state = deal_fail(idx, @)]
              ELSE [st EXCEPT !.mem = write_val(img, @, rela.r_offset,
                        wrapping_sub(symdef.v.sym.st_value + rela.r_addend,
                                     TLS_DTV_OFFSET))]
         [] OTHER -> [st EXCEPT !.panic = TRUE]

Handler(kind, img, libs, find_symbol, rela, idx, st) ==
    IF kind = "plt"
    THEN PltHandler(img, libs, find_symbol, rela, idx, st)
    ELSE DynHandler(img, libs, find_symbol, rela, idx, st)

\* ------------------------------------------------- ElfRelaArray::relocate
\* the call f(&self.array[idx], idx, state, deal_fail), as the pass makes it:
\* the array, the index, and the entry's bit as the handler finds it
called(kind, idx, st) ==
    [st EXCEPT !.handled = Append(@, [kind |-> kind, idx |-> idx,
                                      bit |-> BitIsSet(st.state.relocated, idx)])]

\* stage Init: every entry, in array order
RECURSIVE InitPass(_, _, _, _, _, _, _)
InitPass(kind, img, libs, find_symbol, array, idx, st) ==
    IF st.panic \/ idx = Len(array)
    THEN st
    ELSE Only({ InitPass(kind, img, libs, find_symbol, array, idx + 1, st1) :
                  st1 \in { Handler(kind, img, libs, find_symbol,
                                    array[idx + 1], idx, called(kind, idx, st)) } })

\* faulty variant, for sensitivity: the bit of a yielded entry is set and the handler is not run
relocating_step_set_only(kind, img, libs, find_symbol, array, idx, st) ==
    called(kind, idx, [st EXCEPT !.state.relocated = BitMap_set(@, idx)])

\* the body of the loop of stage Relocating: state.relocated.set(idx), then
\* f(&self.array[idx], idx, state, deal_fail)
relocating_step(kind, img, libs, find_symbol, array, idx, st) ==
    Handler(kind, img, libs, find_symbol, array[idx + 1], idx,
            called(kind, idx, [st EXCEPT !.state.relocated = BitMap_set(@, idx)]))

\* stage Relocating: the entries the iterator yields; each bit is set, then
\* the handler is called
RECURSIVE RelocatingPass(_, _, _, _, _, _, _)
RelocatingPass(kind, img, libs, find_symbol, array, iter, st) ==
    IF st.panic
    THEN st
    ELSE Only({ IF ~n.some
                THEN st
                ELSE Only({ RelocatingPass(kind, img, libs, find_symbol, array,
                                           n.v.iter, st1) :
                            st1 \in { relocating_step(kind, img, libs, find_symbol,
                                                      array, n.v.idx, st) } }) :
                n \in { BitMapIterator_next(iter, st.state) } })

\* faulty variant, for sensitivity: an engine that has the Init pass only: an unfinished array is
\* never taken up again
ElfRelaArray_relocate_init_only(kind, img, libs, find_symbol, array, st) ==
    CASE st.state.stage = "Init" ->
           InitPass(kind, img, libs, find_symbol, array, 0,
                    [st EXCEPT !.state.stage = "Finish"])
      [] OTHER -> st

ElfRelaArray_relocate(kind, img, libs, find_symbol, array, st) ==
    CASE st.state.stage = "Init" ->
           InitPass(kind, img, libs, find_symbol, array, 0,
                    [st EXCEPT !.state.stage = "Finish"])
      [] st.state.stage = "Relocating" ->
           IF BitMapIterator_new_panics(st.state)
           THEN [st EXCEPT !.panic = TRUE]
           ELSE RelocatingPass(kind, img, libs, find_symbol, array,
                               BitMapIterator_new(st.state),
                               [st EXCEPT !.state.stage = "Finish"])
      [] OTHER -> st

\* ElfRelaArray::is_finished
ElfRelaArray_is_finished(arr) == arr.state.stage = "Finish"

\* ------------------------------------------------------------- the state
VARIABLES
    image,       \* the loaded object: the fields of ElfDylib that never change
    lazy,        \* ElfDylib.lazy
    relocation,  \* ElfDylib.relocation: pltrel and dynrel, each Option<ElfRelaArray>
    mem,         \* the words of the mapped image, by address
    dep_libs,    \* ElfDylib.dep_libs
    closures,    \* ElfDylib.closures
    trace,       \* the functions of loaded code and of the backend called so far
    phase,       \* "unrelocated", "relocated" (finish returned Ok), "dropped"
                 \* (finish returned Err and consumed the image), "panicked"
    result,      \* what finish returned
    calls,       \* the number of relocate / relocate_with calls made
    last,        \* the arguments of the last such call and the state before it
                 \* (handled: the handler calls of the call before it)
    handled      \* the handler calls the last such call made, in call order

vars == << image, lazy, relocation, mem, dep_libs, closures, trace, phase,
           result, calls, last, handled >>

\* The relocated images and their handles (lib.rs), for the properties of
\* ownership and destruction; idle while one image is relocated.
VARIABLES
    objects,     \* per image: its stage and the handles its dep_libs holds
    strong,      \* per image: the strong count of its Arc<Dylib>
    held,        \* per image: the RelocatedDylib handles the user holds
    fini_log,    \* the fini functions called and the mappings released so far
    passed       \* per image: the images passed in libs of its relocate calls

hvars == << objects, strong, held, fini_log, passed >>

HandlesIdle ==
    /\ objects = << >>
    /\ strong = << >>
    /\ held = << >>
    /\ fini_log = << >>
    /\ passed = << >>

\* The parsing of a dynamic section (dynamic.rs); idle otherwise.
VARIABLES
    dyn_table,     \* the Dyn entries in memory, from dynamic_ptr on
    raw_dynamic,   \* what ElfRawDynamic::new returned, once called
    elf_dynamic    \* what ElfRawDynamic::finish returned, once called

dvars == << dyn_table, raw_dynamic, elf_dynamic >>

DynamicIdle ==
    /\ dyn_table = << >>
    /\ raw_dynamic = << >>
    /\ elf_dynamic = << >>

\* The symbol lookups made on one relocated image (Dylib::get); idle
\* otherwise.
VARIABLES
    dylib,       \* the relocated image: its base and the symbols of its index
    gets         \* the get calls made so far: the name asked for, the result

gvars == << dylib, gets >>

GetIdle ==
    /\ dylib = << >>
    /\ gets = << >>

\* The start of the bootstrap loader (mini-loader/src/main.rs, rust_main);
\* idle otherwise.
VARIABLES
    boot_in,     \* what the kernel and the linker hand over: the load base, the
                 \* auxiliary vector, dynv and the tables of the loader's file
    boot_pc,     \* the position in rust_main
    boot_locals, \* rela, rela_count and base, once set
    boot_mem,    \* the words of the loader's own image, by address
    boot_out,    \* the messages printed so far
    boot_stack,  \* the words of the stack from sp on: word i is boot_stack[i + 1]
    boot_jumps   \* the calls of trampoline made so far: entry and sp

bvars == << boot_in, boot_pc, boot_locals, boot_mem, boot_out, boot_stack,
            boot_jumps >>

BootIdle ==
    /\ boot_in = << >>
    /\ boot_pc = "idle"
    /\ boot_locals = << >>
    /\ boot_mem = << >>
    /\ boot_out = << >>
    /\ boot_stack = << >>
    /\ boot_jumps = << >>

\* The reads made on an in-memory object (object.rs, ElfBinary); idle
\* otherwise.
VARIABLES
    binary,      \* the ElfBinary: its bytes
    reads        \* the read calls made so far: buf before, offset, what came of it

ovars == << binary, reads >>

ObjectIdle ==
    /\ binary = << >>
    /\ reads = << >>

\* the variables the relocation of one image leaves alone
outside_relocation == << hvars, dvars, gvars, bvars, ovars >>

\* the variables the parsing of a dynamic section leaves alone
outside_dynamic == << vars, hvars, gvars, bvars, ovars >>

\* --------------------------------------------------------- relocate_impl
\* faulty variant, for sensitivity: the PLT array is relocated whatever the lazy flag
plt_is_processed_always(lazy_) == TRUE

\* the PLT array is skipped when lazy binding is on
plt_is_processed(lazy_) == ~lazy_

\* the PLT pass: st after it
plt_pass(img, lazy_, reloc, libs, find_symbol, st) ==
    IF plt_is_processed(lazy_) /\ reloc.pltrel.some
    THEN ElfRelaArray_relocate("plt", img, libs, find_symbol, reloc.pltrel.v.array, st)
    ELSE st

\* the dynamic pass: st after it
dyn_pass(img, reloc, libs, find_symbol, st) ==
    IF ~st.panic /\ reloc.dynrel.some
    THEN ElfRelaArray_relocate("dyn", img, libs, find_symbol, reloc.dynrel.v.array, st)
    ELSE st

relocate_impl(img, lazy_, reloc, mem_, trace_, libs, find_symbol) ==
    Only({ Only({ [relocation |->
                      [pltrel |-> IF reloc.pltrel.some
                                  THEN Some([reloc.pltrel.v EXCEPT !.state = p1.state])
                                  ELSE None,
                       dynrel |-> IF reloc.dynrel.some
                                  THEN Some([reloc.dynrel.v EXCEPT !.state = d1.state])
                                  ELSE None],
                   mem |-> d1.mem, trace |-> d1.trace, panic |-> d1.panic,
                   handled |-> d1.handled] :
                  d1 \in { dyn_pass(img, reloc, libs, find_symbol,
                                    [state |-> IF reloc.dynrel.some
                                               THEN reloc.dynrel.v.state ELSE None,
                                     mem |-> p1.mem, trace |-> p1.trace,
                                     panic |-> p1.panic,
                                     handled |-> p1.handled]) } }) :
           p1 \in { plt_pass(img, lazy_, reloc, libs, find_symbol,
                             [state |-> IF reloc.pltrel.some
                                        THEN reloc.pltrel.v.state ELSE None,
                              mem |-> mem_, trace |-> trace_, panic |-> FALSE,
                              handled |-> << >>]) } })

\* ElfDylib::is_finished
is_finished(lazy_, reloc) ==
    LET finished0 == TRUE
        finished1 == IF ~lazy_ /\ reloc.pltrel.some
                     THEN ElfRelaArray_is_finished(reloc.pltrel.v)
                     ELSE finished0
    IN IF reloc.dynrel.some
       THEN ElfRelaArray_is_finished(reloc.dynrel.v)
       ELSE finished1

\* ------------------------------------------------ ElfDylib::not_relocated
\* the names one array contributes: its entries with a cleared bit and
\* r_sym # 0, in index order
RECURSIVE names_of(_, _, _)
names_of(img, array, idxs) ==
    IF idxs = << >> THEN << >>
    ELSE LET rela == array[Head(idxs) + 1] IN
         (IF rela.r_sym # 0
          THEN << rel_symbol(img, rela.r_sym).st_name >>
          ELSE << >>) \o names_of(img, array, Tail(idxs))

array_not_relocated(img, arr) ==
    names_of(img, arr.array, IterIndices(BitMapIterator_new(arr.state), arr.state))

not_relocated_panics(reloc) ==
    \/ reloc.pltrel.some /\ BitMapIterator_new_panics(reloc.pltrel.v.state)
    \/ reloc.dynrel.some /\ BitMapIterator_new_panics(reloc.dynrel.v.state)

\* the message: the image's name, then "[name] " for every listed symbol
not_relocated(img, reloc) ==
    [name |-> img.name,
     symbols |-> (IF reloc.pltrel.some
                  THEN array_not_relocated(img, reloc.pltrel.v) ELSE << >>)
                 \o (IF reloc.dynrel.some
                     THEN array_not_relocated(img, reloc.dynrel.v) ELSE << >>)]

\* ------------------------------------------------------- ElfDylib::finish
\* faulty variant, for sensitivity: the INIT_ARRAY functions before INIT
init_calls_array_first(img) ==
    (IF img.init_array_fn.some
     THEN [i \in 1 .. Len(img.init_array_fn.v) |->
               [ev |-> "init_array", arg |-> i - 1]]
     ELSE << >>)
    \o (IF img.init_fn.some THEN << [ev |-> "init", arg |-> 0] >> ELSE << >>)

\* the init functions finish calls, in call order
init_calls(img) ==
    (IF img.init_fn.some THEN << [ev |-> "init", arg |-> 0] >> ELSE << >>)
    \o (IF img.init_array_fn.some
        THEN [i \in 1 .. Len(img.init_array_fn.v) |->
                  [ev |-> "init_array", arg |-> i - 1]]
        ELSE << >>)

\* is relro.relro() called
relro_is_called(img, lazy_) == ~lazy_ /\ img.relro

\* faulty variant, for sensitivity: the init functions run before is_finished is looked at
finish_unfinished_after_init(img, reloc, trace_) ==
    IF not_relocated_panics(reloc)
    THEN [trace |-> trace_ \o init_calls(img), phase |-> "panicked", result |-> None]
    ELSE [trace |-> trace_ \o init_calls(img), phase |-> "dropped",
          result |-> Some([kind |-> "RelocateError",
                           msg |-> not_relocated(img, reloc)])]

\* finish when is_finished() is false: Err(relocate_error(not_relocated())),
\* and self, taken by value, is dropped
finish_unfinished(img, reloc, trace_) ==
    IF not_relocated_panics(reloc)
    THEN [trace |-> trace_, phase |-> "panicked", result |-> None]
    ELSE [trace |-> trace_, phase |-> "dropped",
          result |-> Some([kind |-> "RelocateError",
                           msg |-> not_relocated(img, reloc)])]

\* what finish does to (trace, phase, result); relro_ok is the outcome of
\* the protect call of the mmap backend
finish_impl(img, lazy_, reloc, trace_, deps, relro_ok) ==
    IF ~is_finished(lazy_, reloc)
    THEN finish_unfinished(img, reloc, trace_)
    ELSE LET t1 == trace_ \o init_calls(img) IN
         IF relro_is_called(img, lazy_)
         THEN IF relro_ok
              THEN [trace |-> t1 \o << [ev |-> "relro", arg |-> 1] >>,
                    phase |-> "relocated",
                    result |-> Some([kind |-> "Ok", dep_libs |-> deps])]
              ELSE [trace |-> t1 \o << [ev |-> "relro", arg |-> 0] >>,
                    phase |-> "dropped",
                    result |-> Some([kind |-> "MmapError"])]
         ELSE [trace |-> t1, phase |-> "relocated",
               result |-> Some([kind |-> "Ok", dep_libs |-> deps])]

\* ------------------------------------------------------------------ Init
\* the image as the loader produces it
Init ==
    /\ image \in Images
    /\ lazy \in BOOLEAN
    /\ relocation = ElfRelocation_new(image.pltrel, image.dynrel)
    /\ mem = [a \in {image.base + o : o \in Offsets} |-> FileWord(a - image.base)]
    /\ dep_libs = << >>
    /\ closures = << >>
    /\ trace = << >>
    /\ phase = "unrelocated"
    /\ result = None
    /\ calls = 0
    /\ last = None
    /\ handled = << >>
    /\ ObjectIdle
    /\ HandlesIdle
    /\ DynamicIdle
    /\ GetIdle
    /\ BootIdle

\* the libs slices a caller passes: distinct libraries, in any order
LibSeqs ==
    { s \in UNION { [1 .. n -> LibIds] : n \in 0 .. MaxLibs } :
         \A i \in DOMAIN s : \A j \in DOMAIN s : s[i] = s[j] => i = j }

\* the relocate calls explored on an image: one more on the image whose
\* array spans two units of the bitmap, so that a pass of stage Relocating
\* follows another one there (it has no PLT array: lazy makes no difference
\* to it, and the further call is explored for one value of lazy only)
CallBound(img, lazy_) ==
    IF img.name = "wide.so" /\ ~lazy_ THEN MaxCalls + 1 ELSE MaxCalls

\* one call of relocate_impl and what follows it in relocate / relocate_with:
\* the fields of the image after the call (on a panic the image is lost)
relocate_call(libs, find_symbol, closure) ==
    Only({ [relocation |-> r.relocation, mem |-> r.mem, trace |-> r.trace,
            handled |-> r.handled,
            phase |-> IF r.panic THEN "panicked" ELSE phase,
            dep_libs |-> IF r.panic THEN dep_libs ELSE dep_libs \o libs,
            closures |-> IF r.panic THEN closures ELSE closures \o closure] :
           r \in { relocate_impl(image, lazy, relocation, mem, trace,
                                 libs, find_symbol) } })

\* ElfDylib::relocate
relocate(libs) ==
    /\ phase = "unrelocated"
    /\ calls < CallBound(image, lazy)
    /\ \E r \in { relocate_call(libs, NoResolver, << >>) } :
       /\ relocation' = r.relocation
       /\ mem' = r.mem
       /\ trace' = r.trace
       /\ handled' = r.handled
       /\ phase' = r.phase
       /\ dep_libs' = r.dep_libs
       /\ closures' = r.closures
    /\ calls' = calls + 1
    /\ last' = Some([libs |-> libs, find_symbol |-> NoResolver,
                     relocation |-> relocation, mem |-> mem, trace |-> trace,
                     handled |-> handled])
    /\ UNCHANGED << image, lazy, result >>
    /\ UNCHANGED outside_relocation

\* ElfDylib::relocate_with
relocate_with(libs, func) ==
    /\ phase = "unrelocated"
    /\ calls < CallBound(image, lazy)
    /\ \E r \in { relocate_call(libs, func, << func >>) } :
       /\ relocation' = r.relocation
       /\ mem' = r.mem
       /\ trace' = r.trace
       /\ handled' = r.handled
       /\ phase' = r.phase
       /\ dep_libs' = r.dep_libs
       /\ closures' = r.closures
    /\ calls' = calls + 1
    /\ last' = Some([libs |-> libs, find_symbol |-> func,
                     relocation |-> relocation, mem |-> mem, trace |-> trace,
                     handled |-> handled])
    /\ UNCHANGED << image, lazy, result >>
    /\ UNCHANGED outside_relocation

\* ElfDylib::finish
finish(relro_ok) ==
    /\ phase = "unrelocated"
    /\ \E r \in { finish_impl(image, lazy, relocation, trace, dep_libs, relro_ok) } :
       /\ trace' = r.trace
       /\ phase' = r.phase
       /\ result' = r.result
    /\ UNCHANGED << image, lazy, relocation, mem, dep_libs, closures, calls, last,
                    handled >>
    /\ UNCHANGED outside_relocation

Next ==
    \/ \E libs \in LibSeqs : relocate(libs)
    \/ \E libs \in LibSeqs : \E func \in Resolvers : relocate_with(libs, func)
    \/ \E relro_ok \in BOOLEAN : finish(relro_ok)

Spec == Init /\ [][Next]_vars

\* ===================================================== properties: helpers
\* the (Option) array of a kind, now and before the last call
ArrOf(kind) == IF kind = "plt" THEN relocation.pltrel ELSE relocation.dynrel
PreArrOf(kind) ==
    IF kind = "plt" THEN last.v.relocation.pltrel ELSE last.v.relocation.dynrel

Kinds == {"plt", "dyn"}

\* the arrays relocate works on: the dynamic one, and the PLT one unless lazy
Attempted(kind) == ArrOf(kind).some /\ (kind = "plt" => ~lazy)

\* the entry indices of an array
Indices(arr) == 0 .. (Len(arr.array) - 1)

\* the entries of an array whose bit is cleared
Unresolved(arr) == { i \in Indices(arr) : ~BitIsSet(arr.state.relocated, i) }

\* every bit of every unit is set
AllSet(arr) == \A u \in 1 .. Len(arr.state.relocated) : arr.state.relocated[u] = AllOnes

\* the name an entry is looked up by
NameOf(rela) == IF rela.r_sym = 0 THEN "" ELSE image.symtab[rela.r_sym].st_name

\* the image still exists as a value a caller holds, or finish has returned
Returned == phase \in {"relocated", "dropped"}

Range(seq) == { seq[i] : i \in 1 .. Len(seq) }

\* --------------------------------------------------------------------- C1
\* C1: for a non-lazy image with both a PLT and a dynamic relocation array,
\* is_finished() is true only if both arrays are in stage Finish (so it is
\* false while a PLT entry is unresolved, whatever the dynamic array).
C1_IsFinishedNeedsBoth ==
    (/\ ~lazy
     /\ relocation.pltrel.some
     /\ relocation.dynrel.some
     /\ is_finished(lazy, relocation))
    => /\ relocation.pltrel.v.state.stage = "Finish"
       /\ relocation.dynrel.v.state.stage = "Finish"

\* --------------------------------------------------------------------- C2
\* the names of the symbols of the attempted entries that failed
FailedNames ==
    UNION { { NameOf(ArrOf(k).v.array[i + 1]) : i \in
                { j \in Unresolved(ArrOf(k).v) : ArrOf(k).v.array[j + 1].r_sym # 0 } }
            : k \in { kk \in Kinds : Attempted(kk) } }

SomeEntryFailed ==
    \E k \in Kinds : Attempted(k) /\ Unresolved(ArrOf(k).v) # {}

\* C2: when some attempted entry of the PLT array (non-lazy) or of the
\* dynamic array failed to resolve, is_finished() is false and finish
\* returns a RelocateError whose message names every unresolved symbol.
C2_FailedEntryIsReported ==
    SomeEntryFailed
    => /\ ~is_finished(lazy, relocation)
       /\ Returned => /\ result.v.kind = "RelocateError"
                      /\ FailedNames \subseteq Range(result.v.msg.symbols)

\* --------------------------------------------------------------------- C3
\* the libs or the resolver of a call define the symbol an entry needs: a
\* library defines its name, or the resolver returns an address for it (an
\* address stands for the symbol of a JUMP_SLOT, GLOB_DAT or SYMBOLIC entry;
\* a TLS symbol is a module and an offset, which only a library defines)
Defined(rela, libs, find_symbol) ==
    \/ /\ rela.r_sym # 0
       /\ \E i \in 1 .. Len(libs) : get_sym(Lib(libs[i]), NameOf(rela)).some
    \/ /\ rela.r_type \in {REL_JUMP_SLOT, REL_GOT, REL_SYMBOLIC}
       /\ find_symbol[NameOf(rela)].some

\* the entries of an array that were unresolved when the last call began
MissingBefore(k) == Unresolved(PreArrOf(k).v)

\* the last call returned, earlier calls had left entries unresolved, and
\* the last call's libs and resolver define all the missing symbols
C3_SecondCallCompletes ==
    /\ last.some
    /\ phase # "panicked"
    /\ \E k \in Kinds : Attempted(k) /\ MissingBefore(k) # {}
    /\ \A k \in Kinds : Attempted(k) =>
          \A i \in MissingBefore(k) :
              Defined(ArrOf(k).v.array[i + 1], last.v.libs, last.v.find_symbol)

\* C3: when a relocate call left entries unresolved and a later call on the
\* same image brings libs (or a resolver) that define all the missing
\* symbols, those entries are relocated by the later call, is_finished() is
\* true after it and finish does not fail for want of relocation (it
\* returns Ok unless the RELRO protection itself fails).
C3_DeferredRelocation ==
    C3_SecondCallCompletes
    => /\ \A k \in Kinds : Attempted(k) =>
              /\ ArrOf(k).v.state.stage = "Finish"
              /\ AllSet(ArrOf(k).v)
       /\ is_finished(lazy, relocation)
       /\ Returned =>
              \/ result.v.kind = "Ok"
              \/ /\ result.v.kind = "MmapError"
                 /\ trace[Len(trace)] = [ev |-> "relro", arg |-> 0]

\* the case of C3 happens: a second call completed the relocation and
\* finish returned the relocated image
C3_Witness ==
    /\ C3_SecondCallCompletes
    /\ phase = "relocated"
    /\ result.v.kind = "Ok"

\* --------------------------------------------------------------------- C4
\* a step is a finish call on an image whose relocation is not finished
\* (every relocate call counts in calls, a finish call does not)
FinishOnUnfinished ==
    /\ phase = "unrelocated"
    /\ calls' = calls
    /\ ~is_finished(lazy, relocation)

\* the relocation state, the memory, the dependency list and the record of
\* init and RELRO calls are what they were before the step
ImageUntouched ==
    /\ relocation' = relocation
    /\ mem' = mem
    /\ dep_libs' = dep_libs
    /\ closures' = closures
    /\ trace' = trace

HandledBy(k) ==
    IF ~last.some \/ phase = "panicked" \/ ~Attempted(k) THEN {}
    ELSE IF PreArrOf(k).v.state.stage = "Init" THEN Indices(ArrOf(k).v)
    ELSE IF PreArrOf(k).v.state.stage = "Relocating" THEN Unresolved(PreArrOf(k).v)
    ELSE {}

\* the entries of a relocation type in Types that the last call resolved
ResolvedEntries(Types) ==
    UNION { { ArrOf(k).v.array[i + 1] : i \in
                { j \in HandledBy(k) :
                     /\ BitIsSet(ArrOf(k).v.state.relocated, j)
                     /\ ArrOf(k).v.array[j + 1].r_type \in Types } }
            : k \in Kinds }

\* the entries whose word is computed from a symbol address S
SymbolEntries == ResolvedEntries({REL_JUMP_SLOT, REL_GOT, REL_SYMBOLIC})

\* the word at base + r_offset
WordOf(rela) == mem[image.base + rela.r_offset]

\* the S of the word an entry stored: the word of a JUMP_SLOT entry, the
\* word less the addend of a GLOB_DAT or SYMBOLIC entry
SymbolIn(rela) ==
    IF rela.r_type = REL_JUMP_SLOT THEN WordOf(rela) ELSE WordOf(rela) - rela.r_addend

\* the image itself defines the symbol of an entry
DefinedInImage(rela) ==
    rela.r_sym # 0 /\ image.symtab[rela.r_sym].st_shndx # SHN_UNDEF

\* the positions in libs of the dependencies that define the entry's name
DefiningDeps(rela, libs) ==
    IF rela.r_sym = 0 THEN {}
    ELSE { j \in 1 .. Len(libs) : get_sym(Lib(libs[j]), NameOf(rela)).some }

FirstOf(S) == CHOOSE j \in S : \A m \in S : j <= m

\* base + st_value of a definition, and the value of the symbol: that
\* address, or for an IFUNC symbol what the function at that address returns
AddressOf(base, sym) == base + sym.st_value
ValueOf(base, sym) ==
    IF sym.st_info % 16 = STT_GNU_IFUNC
    THEN IfuncCall(AddressOf(base, sym))
    ELSE AddressOf(base, sym)

OwnValue(rela) == ValueOf(image.base, image.symtab[rela.r_sym])
DepSym(rela, libs, j) == get_sym(Lib(libs[j]), NameOf(rela)).v
DepAddress(rela, libs, j) == AddressOf(Lib(libs[j]).base, DepSym(rela, libs, j))
DepValue(rela, libs, j) == ValueOf(Lib(libs[j]).base, DepSym(rela, libs, j))

\* what the resolver of the last call returns for the entry's name
ResolverFor(rela) == last.v.find_symbol[NameOf(rela)]

\* --------------------------------------------------------------------- C5
\* C5 (as stated): the symbol of a resolved entry is looked up in the image
\* itself first, then in the first dependency that defines it, and the
\* resolver is used only when neither defines it.
C5_ResolverIsFallback ==
    \A rela \in SymbolEntries :
        LET deps == DefiningDeps(rela, last.v.libs)
        IN /\ DefinedInImage(rela) => SymbolIn(rela) = OwnValue(rela)
           /\ (~DefinedInImage(rela) /\ deps # {})
                 => SymbolIn(rela) = DepValue(rela, last.v.libs, FirstOf(deps))
           /\ (~DefinedInImage(rela) /\ deps = {})
                 => /\ ResolverFor(rela).some
                    /\ SymbolIn(rela) = ResolverFor(rela).v

\* the module and offset a TLS entry takes: from the image's own definition,
\* else from the first dependency that defines the name
TlsSource(rela) ==
    LET deps == DefiningDeps(rela, last.v.libs)
    IN IF DefinedInImage(rela)
       THEN Some([tls |-> image.tls, sym |-> image.symtab[rela.r_sym]])
       ELSE IF deps # {}
            THEN Some([tls |-> Lib(last.v.libs[FirstOf(deps)]).tls,
                       sym |-> DepSym(rela, last.v.libs, FirstOf(deps))])
            ELSE None

\* C5 (amended): for a JUMP_SLOT, GLOB_DAT or SYMBOLIC entry the resolver is
\* consulted first and its address, when it returns one, is the symbol value
\* whatever the image or the dependencies define; otherwise the image's own
\* definition is used, otherwise the first dependency that defines the
\* name. A DTPMOD or DTPOFF entry takes the own definition, otherwise the
\* first defining dependency, and never the resolver.
C5_ResolverIsConsultedFirst ==
    /\ \A rela \in SymbolEntries :
           LET deps == DefiningDeps(rela, last.v.libs)
               res  == ResolverFor(rela)
           IN /\ res.some => SymbolIn(rela) = res.v
              /\ (~res.some /\ DefinedInImage(rela))
                    => SymbolIn(rela) = OwnValue(rela)
              /\ (~res.some /\ ~DefinedInImage(rela))
                    => /\ deps # {}
                       /\ SymbolIn(rela) = DepValue(rela, last.v.libs, FirstOf(deps))
    /\ \A rela \in ResolvedEntries({REL_DTPOFF}) :
           /\ TlsSource(rela).some
           /\ WordOf(rela) = TlsSource(rela).v.sym.st_value + rela.r_addend
                                - TLS_DTV_OFFSET
    /\ \A rela \in ResolvedEntries({REL_DTPMOD}) :
           rela.r_sym # 0
              => /\ TlsSource(rela).some
                 /\ TlsSource(rela).v.tls.some
                 /\ WordOf(rela) = TlsSource(rela).v.tls.v

\* the case of C5 happens: a call resolved an entry whose symbol the
\* resolver supplies although the image or a dependency defines it, and
\* another from a definition because the resolver had no address for it
C5_Witness ==
    /\ \E rela \in SymbolEntries :
           /\ ResolverFor(rela).some
           /\ DefinedInImage(rela) \/ DefiningDeps(rela, last.v.libs) # {}
    /\ \E rela \in SymbolEntries : ~ResolverFor(rela).some

\* --------------------------------------------------------------------- C6
\* an entry whose symbol the image does not define and that two or more of
\* the dependencies of the last call define
SeveralDepsDefine(rela) ==
    /\ ~DefinedInImage(rela)
    /\ Cardinality(DefiningDeps(rela, last.v.libs)) >= 2

\* C6 (as stated): when the image does not define an entry's symbol and
\* several dependencies define the name, S is the base plus st_value of the
\* dependency that comes first in the slice.
C6_FirstDependencyWins ==
    \A rela \in SymbolEntries :
        SeveralDepsDefine(rela)
        => SymbolIn(rela) =
              DepAddress(rela, last.v.libs, FirstOf(DefiningDeps(rela, last.v.libs)))

\* C6 (amended): when the image does not define an entry's symbol, several
\* dependencies define the name and the resolver returns no address for it,
\* S is taken from the dependency that comes first in the slice (its base
\* plus st_value, or for an IFUNC symbol what the function there returns);
\* a later dependency's definition is never used, with or without resolver.
C6_FirstDependencyWinsWithoutResolver ==
    \A rela \in SymbolEntries :
        LET deps  == DefiningDeps(rela, last.v.libs)
            first == FirstOf(deps)
        IN SeveralDepsDefine(rela)
           => /\ ~ResolverFor(rela).some
                    => SymbolIn(rela) = DepValue(rela, last.v.libs, first)
              /\ \A j \in deps :
                    DepValue(rela, last.v.libs, j) # DepValue(rela, last.v.libs, first)
                       => SymbolIn(rela) # DepValue(rela, last.v.libs, j)

\* the case of C6 happens: a call without a resolver address for the name
\* resolved an entry that two dependencies define differently
C6_Witness ==
    \E rela \in SymbolEntries :
        /\ SeveralDepsDefine(rela)
        /\ ~ResolverFor(rela).some
        /\ \E j \in DefiningDeps(rela, last.v.libs) :
               DepValue(rela, last.v.libs, j) #
                  DepValue(rela, last.v.libs, FirstOf(DefiningDeps(rela, last.v.libs)))

\* --------------------------------------------------------------------- C7
\* the dynamic array, the only one a lazy image relocates, is absent or in
\* stage Finish
DynamicArrayFinished ==
    relocation.dynrel.some => relocation.dynrel.v.state.stage = "Finish"

\* C7: for an image loaded with lazy binding, relocate leaves the PLT array
\* as constructed (stage Init, every bit set) and the words its entries
\* address as loaded from the file; is_finished() is true exactly when the
\* dynamic array is absent or in stage Finish, and finish returns the
\* relocated image exactly in that case.
C7_LazySkipsPlt ==
    lazy
    => /\ relocation.pltrel = ElfRelocation_new(image.pltrel, image.dynrel).pltrel
       /\ image.pltrel.some =>
             \A i \in 1 .. Len(image.pltrel.v) :
                 WordOf(image.pltrel.v[i]) = FileWord(image.pltrel.v[i].r_offset)
       /\ is_finished(lazy, relocation) <=> DynamicArrayFinished
       /\ phase = "relocated" => DynamicArrayFinished
       /\ phase = "dropped" => ~DynamicArrayFinished

\* the case of C7 happens: a lazy image with a PLT entry whose symbol
\* neither the image, the dependencies nor the resolver of the call define
\* had its dynamic array relocated, and finish returned it as relocated
C7_Witness ==
    /\ lazy
    /\ calls >= 1
    /\ image.pltrel.some
    /\ relocation.dynrel.some
    /\ \E i \in 1 .. Len(image.pltrel.v) :
           /\ ~DefinedInImage(image.pltrel.v[i])
           /\ DefiningDeps(image.pltrel.v[i], last.v.libs) = {}
           /\ ~ResolverFor(image.pltrel.v[i]).some
    /\ SymbolEntries # {}
    /\ phase = "relocated"
    /\ result.v.kind = "Ok"

\* --------------------------------------------------------------------- C8
\* the indices of the RELATIVE entries of the dynamic array
RelativeIndices ==
    IF relocation.dynrel.some
    THEN { i \in Indices(relocation.dynrel.v) :
              relocation.dynrel.v.array[i + 1].r_type = REL_RELATIVE }
    ELSE {}

\* C8: once a relocate call has returned, the word at base + r_offset of
\* every RELATIVE entry of the dynamic array is base + r_addend, and at no
\* time is such an entry marked unresolved, whatever libs and resolver the
\* calls were given.
C8_RelativeEntries ==
    \A i \in RelativeIndices :
        LET rela == relocation.dynrel.v.array[i + 1]
        IN /\ BitIsSet(relocation.dynrel.v.state.relocated, i)
           /\ (calls >= 1 /\ phase # "panicked")
                 => WordOf(rela) = image.base + rela.r_addend

\* the case of C8 happens: a call relocated a RELATIVE entry of an array in
\* which another entry failed to resolve
C8_Witness ==
    /\ calls >= 1
    /\ phase # "panicked"
    /\ RelativeIndices # {}
    /\ Unresolved(relocation.dynrel.v) # {}
    /\ \A i \in RelativeIndices :
           WordOf(relocation.dynrel.v.array[i + 1]) #
              FileWord(relocation.dynrel.v.array[i + 1].r_offset)

\* --------------------------------------------------------------------- C9
\* the image that defines an entry's symbol: the image itself, else the
\* first dependency of the last call that defines the name
HasDefiningImage(rela) ==
    DefinedInImage(rela) \/ DefiningDeps(rela, last.v.libs) # {}

\* base + st_value of the entry's symbol in its defining image
DefinitionAddress(rela) ==
    IF DefinedInImage(rela)
    THEN AddressOf(image.base, image.symtab[rela.r_sym])
    ELSE DepAddress(rela, last.v.libs, FirstOf(DefiningDeps(rela, last.v.libs)))

\* the symbol value the engine uses: the resolver's address when it returns
\* one, else the value of the definition (an IFUNC definition is called)
EngineSymbol(rela) ==
    IF ResolverFor(rela).some THEN ResolverFor(rela).v
    ELSE IF DefinedInImage(rela) THEN OwnValue(rela)
    ELSE DepValue(rela, last.v.libs, FirstOf(DefiningDeps(rela, last.v.libs)))

InitEvents == SelectSeq(trace, LAMBDA e : e.ev \in {"init", "init_array"})

\* INIT once, if the image has it, then the INIT_ARRAY entries in array order
ExpectedInitEvents ==
    (IF image.init_fn.some THEN << [ev |-> "init", arg |-> 0] >> ELSE << >>)
    \o (IF image.init_array_fn.some
        THEN [i \in 1 .. Len(image.init_array_fn.v) |->
                 [ev |-> "init_array", arg |-> i - 1]]
        ELSE << >>)

\* C10: when finish has run on an image whose relocation is finished, the
\* INIT function has been called exactly once, if present, and then the
\* INIT_ARRAY entries in array order, each once, and this is so when the
\* relocated image is returned; no init function has been called while
\* only relocate or relocate_with have run, nor by a finish that reports
\* unfinished relocation.
C10_InitOrder ==
    /\ (Returned /\ result.v.kind # "RelocateError")
          => InitEvents = ExpectedInitEvents
    /\ phase = "relocated" => result.v.kind = "Ok"
    /\ phase \in {"unrelocated", "panicked"} => InitEvents = << >>
    /\ (phase = "dropped" /\ result.v.kind = "RelocateError")
          => InitEvents = << >>

\* the case of C10 happens: finish returned the relocated image of an image
\* with an INIT function and two INIT_ARRAY entries, after relocate calls
\* that ran an IFUNC resolver
C10_Witness ==
    /\ phase = "relocated"
    /\ calls >= 1
    /\ image.init_fn.some
    /\ image.init_array_fn.some /\ Len(image.init_array_fn.v) >= 2
    /\ \E i \in 1 .. Len(trace) : trace[i].ev = "ifunc"

\* -------------------------------------------------------------------- C11
\* C11: in finish on a non-lazy image with a RELRO range, the RELRO
\* protection is applied after all relocation writes (finish writes no
\* word) and before INIT or any INIT_ARRAY function is called: every relro
\* event of the record comes before every init event.
C11_RelroBeforeInit ==
    /\ \A i \in 1 .. Len(trace) : \A j \in 1 .. Len(trace) :
           (trace[i].ev = "relro" /\ trace[j].ev \in {"init", "init_array"})
              => i < j
    /\ (~lazy /\ image.relro /\ phase = "relocated")
          => \E i \in 1 .. Len(trace) : trace[i].ev = "relro"

\* ============================================ relocated images and handles
\* A RelocatedDylib is a handle, Arc<Dylib>, to a relocated image. The images
\* here are numbered; what matters of each is whether it has a FINI function
\* and how many FINI_ARRAY entries.
MaxImages == 3     \* the images loaded
MaxHandles == 2    \* the handles to one image the user holds at a time
MaxDeps == 1       \* the length of an image's dep_libs

HImages == 1 .. MaxImages

\* Dylib.fini_fn: is there a FINI function
fini_fn(o) == o % 2 = 1

\* Dylib.fini_array_fn: the number of FINI_ARRAY entries, if there is an array
fini_array_fn(o) == IF (o + 1) % 3 = 0 THEN None ELSE Some((o + 1) % 3)

FiniEvent(ev, o, arg) == [ev |-> ev, obj |-> o, arg |-> arg]

\* faulty variant, for sensitivity: the FINI_ARRAY functions before FINI
Dylib_drop_array_first(o) ==
    (IF fini_array_fn(o).some
     THEN [i \in 1 .. fini_array_fn(o).v |-> FiniEvent("fini_array", o, i - 1)]
     ELSE << >>)
    \o (IF fini_fn(o) THEN << FiniEvent("fini", o, 0) >> ELSE << >>)

\* impl Drop for Dylib: the functions drop calls, in call order
Dylib_drop(o) ==
    (IF fini_fn(o) THEN << FiniEvent("fini", o, 0) >> ELSE << >>)
    \o (IF fini_array_fn(o).some
        THEN [i \in 1 .. fini_array_fn(o).v |-> FiniEvent("fini_array", o, i - 1)]
        ELSE << >>)

\* dropping ElfSegments releases the mapping of the image
ElfSegments_drop(o) == << FiniEvent("unmap", o, 0) >>

\* The drop of one handle to image o in the world w = [objects, strong,
\* fini_log]: Arc decrements the strong count, and the holder of the last
\* reference drops the Dylib: Drop::drop, then its fields in declaration
\* order, dep_libs before segments.
RECURSIVE Arc_drop(_, _)
RECURSIVE drop_slice(_, _)
Arc_drop(w, o) ==
    IF w.strong[o] # 1
    THEN [w EXCEPT !.strong[o] = @ - 1]
    ELSE Only({ [w2 EXCEPT !.fini_log = @ \o ElfSegments_drop(o)] :
                w2 \in { drop_slice([w EXCEPT !.strong[o] = 0,
                                              !.objects[o].stage = "destroyed",
                                              !.fini_log = @ \o Dylib_drop(o)],
                                    w.objects[o].dep_libs) } })

\* the drop of a slice of handles: each element in index order
drop_slice(w, libs) ==
    IF libs = << >> THEN w
    ELSE Only({ drop_slice(w1, Tail(libs)) : w1 \in { Arc_drop(w, Head(libs)) } })

\* faulty variant, for sensitivity: the slice is looked at but no handle is kept
extend_from_slice_none(dep_libs_, libs) == dep_libs_

\* Vec::extend_from_slice: a clone of every element of libs is appended
extend_from_slice(dep_libs_, libs) == dep_libs_ \o libs

\* the strong counts after the handles of the sequence clones were cloned
RECURSIVE clone_all(_, _)
clone_all(strong_, clones) ==
    IF clones = << >> THEN strong_
    ELSE clone_all([strong_ EXCEPT ![Head(clones)] = @ + 1], Tail(clones))

\* the variables of the relocation of one image, when no image is under
\* relocation
RelocationIdle ==
    /\ image = << >>
    /\ lazy = FALSE
    /\ relocation = << >>
    /\ mem = << >>
    /\ dep_libs = << >>
    /\ closures = << >>
    /\ trace = << >>
    /\ phase = "idle"
    /\ result = None
    /\ calls = 0
    /\ last = None
    /\ handled = << >>

\* the variables the handles leave alone
outside_handles == << vars, dvars, gvars, bvars, ovars >>

\* every image loaded and not yet relocated, no handle anywhere
InitHandles ==
    /\ objects = [o \in HImages |-> [stage |-> "unrelocated", dep_libs |-> << >>]]
    /\ strong = [o \in HImages |-> 0]
    /\ held = [o \in HImages |-> 0]
    /\ fini_log = << >>
    /\ passed = [o \in HImages |-> {}]
    /\ ObjectIdle
    /\ RelocationIdle
    /\ DynamicIdle
    /\ GetIdle
    /\ BootIdle

\* the slices of handles a caller can pass
HandleSlices == UNION { [1 .. n -> HImages] : n \in 0 .. MaxDeps }

\* relocate / relocate_with on the unrelocated image o, as far as handles
\* go: self.dep_libs.extend_from_slice(libs). The slice is of handles the
\* user holds.
relocate_holding(o, libs) ==
    /\ objects[o].stage = "unrelocated"
    /\ \A i \in 1 .. Len(libs) : held[libs[i]] >= 1
    /\ Len(objects[o].dep_libs) + Len(libs) <= MaxDeps
    /\ \E d \in { extend_from_slice(objects[o].dep_libs, libs) } :
       /\ objects' = [objects EXCEPT ![o].dep_libs = d]
       /\ strong' = clone_all(strong, SubSeq(d, Len(objects[o].dep_libs) + 1, Len(d)))
    /\ passed' = [passed EXCEPT ![o] = @ \cup Range(libs)]
    /\ UNCHANGED << held, fini_log >>
    /\ UNCHANGED outside_handles

\* finish on the unrelocated image o. When is_finished() it returns the
\* first handle, Arc::new(Dylib { .., dep_libs, .. }); when not, it returns
\* Err and the ElfDylib is dropped, its fields in declaration order,
\* segments before dep_libs.
finish_handle(o, finished) ==
    /\ objects[o].stage = "unrelocated"
    /\ IF finished
       THEN /\ objects' = [objects EXCEPT ![o].stage = "relocated"]
            /\ strong' = [strong EXCEPT ![o] = 1]
            /\ held' = [held EXCEPT ![o] = 1]
            /\ UNCHANGED fini_log
       ELSE /\ \E w \in { drop_slice([objects |-> [objects EXCEPT ![o].stage = "discarded"],
                                      strong |-> strong,
                                      fini_log |-> fini_log \o ElfSegments_drop(o)],
                                     objects[o].dep_libs) } :
               /\ objects' = w.objects
               /\ strong' = w.strong
               /\ fini_log' = w.fini_log
            /\ UNCHANGED held
    /\ UNCHANGED passed
    /\ UNCHANGED outside_handles

\* #[derive(Clone)] on RelocatedDylib: Arc::clone
RelocatedDylib_clone(o) ==
    /\ held[o] >= 1
    /\ held[o] < MaxHandles
    /\ held' = [held EXCEPT ![o] = @ + 1]
    /\ strong' = [strong EXCEPT ![o] = @ + 1]
    /\ UNCHANGED << objects, fini_log, passed >>
    /\ UNCHANGED outside_handles

\* the user drops one of their handles to o
RelocatedDylib_drop(o) ==
    /\ held[o] >= 1
    /\ held' = [held EXCEPT ![o] = @ - 1]
    /\ \E w \in { Arc_drop([objects |-> objects, strong |-> strong,
                            fini_log |-> fini_log], o) } :
       /\ objects' = w.objects
       /\ strong' = w.strong
       /\ fini_log' = w.fini_log
    /\ UNCHANGED passed
    /\ UNCHANGED outside_handles

NextHandles ==
    \/ \E o \in HImages : \E libs \in HandleSlices : relocate_holding(o, libs)
    \/ \E o \in HImages : \E finished \in BOOLEAN : finish_handle(o, finished)
    \/ \E o \in HImages : RelocatedDylib_clone(o)
    \/ \E o \in HImages : RelocatedDylib_drop(o)

SpecHandles == InitHandles /\ [][NextHandles]_hvars

\* -------------------------------------------------------------------- C12
\* the images that hold handles: unrelocated and relocated ones
Holders == { p \in HImages : objects[p].stage \in {"unrelocated", "relocated"} }

\* the number of handles to image o in existence: the user's and those in
\* the dep_libs of the holders
HandlesTo(o) ==
    held[o] + Cardinality({ pi \in Holders \X (1 .. MaxDeps) :
                               /\ pi[2] <= Len(objects[pi[1]].dep_libs)
                               /\ objects[pi[1]].dep_libs[pi[2]] = o })

\* the fini functions of image o called so far, in call order
FiniEventsOf(o) ==
    SelectSeq(fini_log, LAMBDA e : e.obj = o /\ e.ev \in {"fini", "fini_array"})

\* FINI once, if the image has it, then the FINI_ARRAY entries in index order
ExpectedFiniEvents(o) ==
    (IF fini_fn(o) THEN << [ev |-> "fini", obj |-> o, arg |-> 0] >> ELSE << >>)
    \o (IF fini_array_fn(o).some
        THEN [i \in 1 .. fini_array_fn(o).v |->
                 [ev |-> "fini_array", obj |-> o, arg |-> i - 1]]
        ELSE << >>)

\* C12: while any handle to a relocated image exists, none of its fini
\* functions has run, whatever handles were cloned and dropped; when the
\* last handle has been dropped, FINI (when present) has been called exactly
\* once and then each FINI_ARRAY function once in increasing index order.
C12_FiniOnLastDrop ==
    \A o \in HImages :
        /\ objects[o].stage = "relocated"
              => /\ HandlesTo(o) >= 1
                 /\ FiniEventsOf(o) = << >>
        /\ objects[o].stage = "destroyed"
              => /\ HandlesTo(o) = 0
                 /\ FiniEventsOf(o) = ExpectedFiniEvents(o)
        /\ objects[o].stage \in {"unrelocated", "discarded"}
              => FiniEventsOf(o) = << >>

\* the case of C12 happens: an image with FINI and two FINI_ARRAY entries
\* was destroyed by the drop of its last handle, while another image, to
\* which the user holds one handle and a dependant another, is alive
C12_Witness ==
    /\ \E o \in HImages :
           /\ objects[o].stage = "destroyed"
           /\ fini_fn(o)
           /\ fini_array_fn(o).some /\ fini_array_fn(o).v >= 2
    /\ \E p \in HImages :
           /\ objects[p].stage = "relocated"
           /\ held[p] = 1
           /\ \E q \in Holders : p \in Range(objects[q].dep_libs)

\* -------------------------------------------------------------------- C13
\* no fini function of image d has run and its mapping is not released
Intact(d) == \A i \in 1 .. Len(fini_log) : fini_log[i].obj # d

\* everything recorded of image d comes after every fini function of o
DestroyedAfterFiniOf(d, o) ==
    \A i \in 1 .. Len(fini_log) : \A j \in 1 .. Len(fini_log) :
        (/\ fini_log[i].obj = d
         /\ fini_log[j].obj = o
         /\ fini_log[j].ev \in {"fini", "fini_array"})
        => j < i

\* C13: every image passed in libs of a relocate call on an image is held in
\* the dep_libs of that image and of the relocated image finish produces;
\* so, whatever handles the user drops and in whatever order, such a
\* dependency is intact (no fini run, mapping not released) while the
\* dependant lives, and is destroyed only after the dependant's own FINI
\* and FINI_ARRAY functions have run.
C13_DependenciesOutlive ==
    \A o \in HImages :
        /\ objects[o].stage \in {"unrelocated", "relocated"}
              => /\ passed[o] \subseteq Range(objects[o].dep_libs)
                 /\ \A d \in passed[o] :
                        /\ objects[d].stage = "relocated"
                        /\ Intact(d)
        /\ objects[o].stage = "destroyed"
              => /\ FiniEventsOf(o) = ExpectedFiniEvents(o)
                 /\ \A d \in passed[o] : DestroyedAfterFiniOf(d, o)

\* the case of C13 happens: the user dropped every handle to a dependency
\* while its dependant lived, and the dependency was destroyed with the
\* dependant, after the dependant's FINI and FINI_ARRAY functions
C13_Witness ==
    \E o \in HImages : \E d \in passed[o] :
        /\ objects[o].stage = "destroyed"
        /\ fini_fn(o) /\ fini_array_fn(o).some
        /\ objects[d].stage = "destroyed"
        /\ FiniEventsOf(d) # << >>

\* -------------------------------------------------------------------- C14
\* a step is a relocate call that returns and has libs and resolver equal
\* to those of the call before it
RepeatedCall ==
    /\ last.some
    /\ calls' = calls + 1
    /\ phase' = "unrelocated"
    /\ last'.v.libs = last.v.libs
    /\ last'.v.find_symbol = last.v.find_symbol

\* C14: a relocate call with the same dependencies and the same resolver
\* as the call before it leaves every memory word, and the bitmap and the
\* stage of each array, as they were after that call.
C14_RepeatedCallChangesNothing ==
    [][ RepeatedCall => (mem' = mem /\ relocation' = relocation) ]_vars

\* the case of C14 happens: relocate_with was called twice with the same
\* libs and the same resolver (both calls are in dep_libs and closures) on
\* an image of which the first call resolved some entries and not others
C14_Witness ==
    /\ calls = 2
    /\ phase = "unrelocated"
    /\ last.v.libs # << >>
    /\ dep_libs = last.v.libs \o last.v.libs
    /\ closures = << last.v.find_symbol, last.v.find_symbol >>
    /\ last.v.relocation = relocation
    /\ last.v.mem = mem
    /\ SomeEntryFailed
    /\ SymbolEntries = {}
    /\ \E a \in DOMAIN mem : mem[a] # FileWord(a - image.base)

\* -------------------------------------------------------------------- C15
\* the relocation types the engine handles in each array
HandledTypes(kind) ==
    IF kind = "plt" THEN {REL_JUMP_SLOT}
    ELSE {REL_RELATIVE, REL_GOT, REL_SYMBOLIC, REL_DTPMOD, REL_DTPOFF}

\* an array relocate works on has an entry of a type the engine does not handle
HasUnhandledEntry ==
    \E k \in Kinds :
        /\ Attempted(k)
        /\ \E i \in 1 .. Len(ArrOf(k).v.array) :
               ArrOf(k).v.array[i].r_type \notin HandledTypes(k)

\* C15: when relocate has been called on an image with an entry of a type
\* the engine does not handle, the program has not aborted, and finish
\* reports a RelocateError.
C15_UnhandledTypeIsReported ==
    (calls >= 1 /\ HasUnhandledEntry)
    => /\ phase # "panicked"
       /\ Returned => result.v.kind = "RelocateError"

\* -------------------------------------------------------------------- C16
\* the symbol of the definition an entry resolves to
DefinitionSym(rela) ==
    IF DefinedInImage(rela)
    THEN image.symtab[rela.r_sym]
    ELSE DepSym(rela, last.v.libs, FirstOf(DefiningDeps(rela, last.v.libs)))

DefinitionIsIfunc(rela) == DefinitionSym(rela).st_info % 16 = STT_GNU_IFUNC

\* the function at an address was called as an IFUNC resolver
Called(addr) == \E i \in 1 .. Len(trace) : trace[i] = [ev |-> "ifunc", arg |-> addr]

MaxOptional == 2   \* the optional tags of a table
MaxNeeded == 2     \* the DT_NEEDED entries of a table

\* d_tag values (elf::abi)
DT_NULL == 0
DT_NEEDED == 1
DT_PLTRELSZ == 2
DT_STRTAB == 5
DT_SYMTAB == 6
DT_RELA == 7
DT_RELASZ == 8
DT_STRSZ == 10
DT_INIT == 12
DT_FINI == 13
DT_SONAME == 14
DT_JMPREL == 23
DT_INIT_ARRAY == 25
DT_FINI_ARRAY == 26
DT_INIT_ARRAYSZ == 27
DT_FINI_ARRAYSZ == 28
DT_GNU_HASH == 1879047925
DT_VERSYM == 1879048176
DT_VERDEF == 1879048188
DT_VERDEFNUM == 1879048189
DT_VERNEED == 1879048190
DT_VERNEEDNUM == 1879048191

\* size_of::<Rela>() and size_of::<usize>() on the 64-bit target
RelaSize == 24
WordSize == 8

\* the tags new requires, in the order it asks for them, and the others it
\* keeps; DT_SONAME stands for the tags it skips
RequiredTags == << DT_GNU_HASH, DT_SYMTAB, DT_STRTAB, DT_STRSZ >>
OptionalTags ==
    << DT_PLTRELSZ, DT_JMPREL, DT_RELA, DT_RELASZ, DT_INIT, DT_FINI,
       DT_INIT_ARRAY, DT_INIT_ARRAYSZ, DT_FINI_ARRAY, DT_FINI_ARRAYSZ,
       DT_VERSYM, DT_VERNEED, DT_VERNEEDNUM, DT_VERDEF, DT_VERDEFNUM,
       DT_SONAME >>

Dyn(tag, un) == [d_tag |-> tag, d_un |-> un]

\* the d_un of the entry at a place of a table: a different value at every
\* place, none a multiple of an entry size
ValueAt(i) == 40 * i + 7

\* the tags of a sequence that are in a set, in the order of the sequence
TagsIn(tags, S) == SelectSeq(tags, LAMBDA t : t \in S)

Reverse(s) == [i \in 1 .. Len(s) |-> s[Len(s) + 1 - i]]

\* A table in memory: DT_NEEDED entries, the chosen required and optional
\* tags, in this order or the reverse, with the DT_NULL entry after the
\* first cut of them, the remaining entries lying behind the DT_NULL.
Table(req, opt, needed, rev, cut) ==
    LET tags0 == [i \in 1 .. needed |-> DT_NEEDED]
                 \o TagsIn(RequiredTags, req) \o TagsIn(OptionalTags, opt)
        tags  == IF rev THEN Reverse(tags0) ELSE tags0
        c     == IF cut > Len(tags) THEN Len(tags) ELSE cut
        all   == SubSeq(tags, 1, c) \o << DT_NULL >>
                 \o SubSeq(tags, c + 1, Len(tags))
    IN [i \in 1 .. Len(all) |-> Dyn(all[i], IF all[i] = DT_NULL THEN 0 ELSE ValueAt(i))]

\* the optional tags of a table under test: up to MaxOptional tags that
\* follow one another in OptionalTags, so a tag alone, and with its companion
OptionalRuns ==
    { { OptionalTags[i] : i \in a .. (a + n - 1) } :
        <<a, n>> \in { <<a, n>> \in (1 .. Len(OptionalTags)) \X (0 .. MaxOptional) :
                         a + n - 1 <= Len(OptionalTags) } }

\* the tables under test
Tables ==
    { Table(req, opt, needed, rev, cut) :
        req \in SUBSET Range(RequiredTags),
        opt \in OptionalRuns,
        needed \in 0 .. MaxNeeded,
        rev \in BOOLEAN,
        cut \in 0 .. (Cardinality(Range(RequiredTags)) + MaxOptional + MaxNeeded) }

\* the Option fields of ElfRawDynamic::new's locals, by the tag that sets them
FieldOf(tag) ==
    CASE tag = DT_GNU_HASH -> "hash_off"
      [] tag = DT_SYMTAB -> "symtab_off"
      [] tag = DT_STRTAB -> "strtab_off"
      [] tag = DT_STRSZ -> "strtab_size"
      [] tag = DT_PLTRELSZ -> "pltrel_size"
      [] tag = DT_JMPREL -> "pltrel_off"
      [] tag = DT_RELA -> "rela_off"
      [] tag = DT_RELASZ -> "rela_size"
      [] tag = DT_INIT -> "init_off"
      [] tag = DT_FINI -> "fini_off"
      [] tag = DT_INIT_ARRAY -> "init_array_off"
      [] tag = DT_INIT_ARRAYSZ -> "init_array_size"
      [] tag = DT_FINI_ARRAY -> "fini_array_off"
      [] tag = DT_FINI_ARRAYSZ -> "fini_array_size"
      [] tag = DT_VERSYM -> "version_ids_off"
      [] tag = DT_VERNEED -> "verneed_off"
      [] tag = DT_VERNEEDNUM -> "verneed_num"
      [] tag = DT_VERDEF -> "verdef_off"
      [] tag = DT_VERDEFNUM -> "verdef_num"
      [] OTHER -> ""

RawFields ==
    { "hash_off", "symtab_off", "strtab_off", "strtab_size", "pltrel_size",
      "pltrel_off", "rela_off", "rela_size", "init_off", "fini_off",
      "init_array_off", "init_array_size", "fini_array_off", "fini_array_size",
      "version_ids_off", "verneed_off", "verneed_num", "verdef_off",
      "verdef_num" }

\* the locals of new before the loop
new_locals == [f |-> [n \in RawFields |-> None], needed_libs |-> << >>]

\* the loop of new: from entry i on until the DT_NULL entry
RECURSIVE new_loop(_, _, _)
new_loop(table, i, acc) ==
    IF table[i].d_tag = DT_NULL THEN acc
    ELSE new_loop(table, i + 1,
           IF table[i].d_tag = DT_NEEDED
           THEN [acc EXCEPT !.needed_libs = Append(@, table[i].d_un)]
           ELSE IF FieldOf(table[i].d_tag) # ""
                THEN [acc EXCEPT !.f[FieldOf(table[i].d_tag)] = Some(table[i].d_un)]
                ELSE acc)

parse_dynamic_error(msg) == [kind |-> "ParseDynamicError", msg |-> msg]

Ok(x) == [ok |-> TRUE, v |-> x]
Err(e) == [ok |-> FALSE, err |-> e]

\* faulty variant, for sensitivity: DT_SYMTAB is asked for before DT_GNU_HASH
new_result_symtab_first(acc) ==
    IF ~acc.f["symtab_off"].some
    THEN Err(parse_dynamic_error("dynamic section does not have DT_SYMTAB"))
    ELSE IF ~acc.f["hash_off"].some
    THEN Err(parse_dynamic_error("dynamic section does not have DT_GNU_HASH"))
    ELSE IF ~acc.f["strtab_off"].some
    THEN Err(parse_dynamic_error("dynamic section does not have DT_STRTAB"))
    ELSE IF ~acc.f["strtab_size"].some
    THEN Err(parse_dynamic_error("dynamic section does not have DT_STRSZ"))
    ELSE Ok([hash_off |-> acc.f["hash_off"].v,
             symtab_off |-> acc.f["symtab_off"].v,
             strtab_off |-> acc.f["strtab_off"].v,
             strtab_size |-> acc.f["strtab_size"].v,
             opt |-> [n \in RawFields \ {"hash_off", "symtab_off", "strtab_off",
                                         "strtab_size"} |-> acc.f[n]],
             needed_libs |-> acc.needed_libs])

\* what new returns for the locals the loop leaves
new_result(acc) ==
    IF ~acc.f["hash_off"].some
    THEN Err(parse_dynamic_error("dynamic section does not have DT_GNU_HASH"))
    ELSE IF ~acc.f["symtab_off"].some
    THEN Err(parse_dynamic_error("dynamic section does not have DT_SYMTAB"))
    ELSE IF ~acc.f["strtab_off"].some
    THEN Err(parse_dynamic_error("dynamic section does not have DT_STRTAB"))
    ELSE IF ~acc.f["strtab_size"].some
    THEN Err(parse_dynamic_error("dynamic section does not have DT_STRSZ"))
    ELSE Ok([hash_off |-> acc.f["hash_off"].v,
             symtab_off |-> acc.f["symtab_off"].v,
             strtab_off |-> acc.f["strtab_off"].v,
             strtab_size |-> acc.f["strtab_size"].v,
             opt |-> [n \in RawFields \ {"hash_off", "symtab_off", "strtab_off",
                                         "strtab_size"} |-> acc.f[n]],
             needed_libs |-> acc.needed_libs])

\* ElfRawDynamic::new
ElfRawDynamic_new(table) ==
    Only({ new_result(acc) : acc \in { new_loop(table, 1, new_locals) } })

\* ------------------------------------------------- ElfRawDynamic::finish
\* The values unwrap_unchecked can give for a size or count that is None.
\* The call is undefined behaviour: a build with the precondition checks
\* aborts, another goes on with whatever value is at hand.
GarbageValues == {0, 3}

\* the pairs (offset field, size or count field) that finish reads together
Companion(off) ==
    CASE off = "pltrel_off" -> "pltrel_size"
      [] off = "rela_off" -> "rela_size"
      [] off = "init_array_off" -> "init_array_size"
      [] off = "fini_array_off" -> "fini_array_size"
      [] off = "verneed_off" -> "verneed_num"
      [] off = "verdef_off" -> "verdef_num"

PairedOffsets ==
    { "pltrel_off", "rela_off", "init_array_off", "fini_array_off",
      "verneed_off", "verdef_off" }

\* finish reads a size or count that is None
reads_absent_size(raw) ==
    \E off \in PairedOffsets : raw.opt[off].some /\ ~raw.opt[Companion(off)].some

\* a byte size as a count of elements of elem bytes
count_of(size, elem) == size \div elem

\* self.X_off.map(|off| (base + off, self.X_size.unwrap_unchecked() / elem)):
\* the values the expression can have
paired(raw, base, off, elem) ==
    IF ~raw.opt[off].some THEN { None }
    ELSE IF raw.opt[Companion(off)].some
    THEN { Some([ptr |-> base + raw.opt[off].v,
                 len |-> count_of(raw.opt[Companion(off)].v, elem)]) }
    ELSE { Some([ptr |-> base + raw.opt[off].v, len |-> count_of(g, elem)]) :
              g \in GarbageValues }

\* self.X_off.map(|off| off + base)
mapped(raw, base, off) ==
    IF raw.opt[off].some THEN Some(raw.opt[off].v + base) ELSE None

\* ElfRawDynamic::finish: the ElfDynamic it can return, or the abort of a
\* build that checks the precondition of unwrap_unchecked
ElfRawDynamic_finish(raw, base) ==
    (IF reads_absent_size(raw) THEN { [kind |-> "abort"] } ELSE {})
    \cup
    { [kind |-> "ElfDynamic",
       hashtab |-> raw.hash_off + base,
       symtab |-> raw.symtab_off + base,
       strtab |-> raw.strtab_off + base,
       strtab_size |-> raw.strtab_size,
       init_fn |-> mapped(raw, base, "init_off"),
       init_array_fn |-> ia,
       fini_fn |-> mapped(raw, base, "fini_off"),
       fini_array_fn |-> fa,
       pltrel |-> pr,
       dynrel |-> dr,
       needed_libs |-> raw.needed_libs,
       version_idx |-> mapped(raw, base, "version_ids_off"),
       verneed |-> vn,
       verdef |-> vd] :
         pr \in paired(raw, base, "pltrel_off", RelaSize),
         dr \in paired(raw, base, "rela_off", RelaSize),
         ia \in paired(raw, base, "init_array_off", WordSize),
         fa \in paired(raw, base, "fini_array_off", WordSize),
         vn \in paired(raw, base, "verneed_off", 1),
         vd \in paired(raw, base, "verdef_off", 1) }

\* the bases a section is mapped at
Bases == {4096, 65536}

InitDynamic ==
    /\ dyn_table \in Tables
    /\ raw_dynamic = None
    /\ elf_dynamic = None
    /\ ObjectIdle
    /\ RelocationIdle
    /\ HandlesIdle
    /\ GetIdle
    /\ BootIdle

\* the call ElfRawDynamic::new(dynamic_ptr)
new ==
    /\ ~raw_dynamic.some
    /\ raw_dynamic' = Some(ElfRawDynamic_new(dyn_table))
    /\ UNCHANGED << dyn_table, elf_dynamic >>
    /\ UNCHANGED outside_dynamic

\* the call raw.finish(base) on the record new returned
finish_dynamic(base) ==
    /\ raw_dynamic.some /\ raw_dynamic.v.ok
    /\ ~elf_dynamic.some
    /\ \E d \in ElfRawDynamic_finish(raw_dynamic.v.v, base) :
           elf_dynamic' = Some([base |-> base, ret |-> d])
    /\ UNCHANGED << dyn_table, raw_dynamic >>
    /\ UNCHANGED outside_dynamic

NextDynamic ==
    \/ new
    \/ \E base \in Bases : finish_dynamic(base)

SpecDynamic == InitDynamic /\ [][NextDynamic]_dvars

\* ---------------------------------------------------------------- C17
\* the place of the first DT_NULL entry of the table in memory
FirstNull == CHOOSE i \in 1 .. Len(dyn_table) :
                 /\ dyn_table[i].d_tag = DT_NULL
                 /\ \A j \in 1 .. (i - 1) : dyn_table[j].d_tag # DT_NULL

\* the entries in front of the first DT_NULL
Terminated == SubSeq(dyn_table, 1, FirstNull - 1)

TagsBeforeNull == { Terminated[i].d_tag : i \in 1 .. Len(Terminated) }

\* the required tags that do not occur in front of the first DT_NULL, in the
\* order GNU_HASH, SYMTAB, STRTAB, STRSZ
MissingRequired == SelectSeq(RequiredTags, LAMBDA t : t \notin TagsBeforeNull)

MissingMessage(tag) ==
    CASE tag = DT_GNU_HASH -> "dynamic section does not have DT_GNU_HASH"
      [] tag = DT_SYMTAB -> "dynamic section does not have DT_SYMTAB"
      [] tag = DT_STRTAB -> "dynamic section does not have DT_STRTAB"
      [] tag = DT_STRSZ -> "dynamic section does not have DT_STRSZ"

\* the d_un of the DT_NEEDED entries in front of the first DT_NULL, in order
NeededBeforeNull ==
    LET e == SelectSeq(Terminated, LAMBDA d : d.d_tag = DT_NEEDED)
    IN [i \in 1 .. Len(e) |-> e[i].d_un]

\* the value new holds for a tag: the d_un of its entry in front of the
\* first DT_NULL, if there is one
HeldFor(tag, opt) ==
    IF tag \in TagsBeforeNull
    THEN opt.some /\ Dyn(tag, opt.v) \in Range(Terminated)
    ELSE ~opt.some

\* C17: ElfRawDynamic::new returns Ok exactly when DT_GNU_HASH, DT_SYMTAB,
\* DT_STRTAB and DT_STRSZ all occur before the first DT_NULL; otherwise it
\* returns the ParseDynamicError naming the first of them that is missing, in
\* that order.  What the record holds comes from the entries before the first
\* DT_NULL alone, and its needed_libs are the DT_NEEDED values in table order.
C17_NewAcceptsRequiredTags ==
    raw_dynamic.some =>
        LET r == raw_dynamic.v IN
        /\ r.ok <=> MissingRequired = << >>
        /\ ~r.ok => r.err = parse_dynamic_error(MissingMessage(MissingRequired[1]))
        /\ r.ok =>
              /\ r.v.needed_libs = NeededBeforeNull
              /\ HeldFor(DT_GNU_HASH, Some(r.v.hash_off))
              /\ HeldFor(DT_SYMTAB, Some(r.v.symtab_off))
              /\ HeldFor(DT_STRTAB, Some(r.v.strtab_off))
              /\ HeldFor(DT_STRSZ, Some(r.v.strtab_size))
              /\ \A t \in Range(OptionalTags) \ {DT_SONAME} :
                     HeldFor(t, r.v.opt[FieldOf(t)])

\* a table with two DT_NEEDED entries and an optional tag behind its DT_NULL
\* was accepted
C17_Witness ==
    /\ raw_dynamic.some /\ raw_dynamic.v.ok
    /\ Len(raw_dynamic.v.v.needed_libs) = 2
    /\ \E i \in (FirstNull + 1) .. Len(dyn_table) :
           dyn_table[i].d_tag \in Range(OptionalTags) \ {DT_SONAME}

\* a table that lacks two required tags was refused
C17_WitnessRefused ==
    /\ raw_dynamic.some /\ ~raw_dynamic.v.ok
    /\ Len(MissingRequired) = 2
    /\ MissingRequired[1] = DT_SYMTAB

\* ---------------------------------------------------------------- C18
\* the record finish was called on, the base it was given, what it returned
FinishedRaw == raw_dynamic.v.v
FinishBase == elf_dynamic.v.base
Finished == elf_dynamic.v.ret

\* an offset with a size: the address base + offset with the count
\* size / elem rounded down; absent when the offset tag is absent
CountedAt(off, elem, got) ==
    IF ~FinishedRaw.opt[off].some THEN got = None
    ELSE /\ got.some
         /\ got.v.ptr = FinishBase + FinishedRaw.opt[off].v
         /\ FinishedRaw.opt[Companion(off)].some =>
                /\ got.v.len * elem <= FinishedRaw.opt[Companion(off)].v
                /\ FinishedRaw.opt[Companion(off)].v < (got.v.len + 1) * elem

\* an offset alone: the address base + offset; absent when the tag is absent
AddressAt(off, got) ==
    IF FinishedRaw.opt[off].some
    THEN got = Some(FinishBase + FinishedRaw.opt[off].v)
    ELSE got = None

\* C18: ElfRawDynamic::finish(base) yields base + offset for every offset tag
\* that is present, the counts size / entry size (PLTRELSZ, RELASZ) and
\* size / word size (INIT_ARRAYSZ, FINI_ARRAYSZ) rounded down, leaves absent
\* optional tags absent and passes STRSZ and the DT_NEEDED values through.
C18_FinishRebasesOffsets ==
    elf_dynamic.some =>
        /\ Finished.kind = "ElfDynamic"
        /\ Finished.hashtab = FinishBase + FinishedRaw.hash_off
        /\ Finished.symtab = FinishBase + FinishedRaw.symtab_off
        /\ Finished.strtab = FinishBase + FinishedRaw.strtab_off
        /\ Finished.strtab_size = FinishedRaw.strtab_size
        /\ Finished.needed_libs = FinishedRaw.needed_libs
        /\ AddressAt("init_off", Finished.init_fn)
        /\ AddressAt("fini_off", Finished.fini_fn)
        /\ AddressAt("version_ids_off", Finished.version_idx)
        /\ CountedAt("pltrel_off", RelaSize, Finished.pltrel)
        /\ CountedAt("rela_off", RelaSize, Finished.dynrel)
        /\ CountedAt("init_array_off", WordSize, Finished.init_array_fn)
        /\ CountedAt("fini_array_off", WordSize, Finished.fini_array_fn)
        /\ CountedAt("verneed_off", 1, Finished.verneed)
        /\ CountedAt("verdef_off", 1, Finished.verdef)

\* =================================================== Dylib::get (lib.rs)
MaxGets == 2   \* the get calls made on one image

\* The relocated images get is called on: the two dependency images and the
\* image relocated above, whose index holds its defined symbols.
Dylibs ==
    { [base |-> Lib(id).base, syms |-> Lib(id).syms] : id \in LibIds }
    \cup { [base |-> ImageBase,
            syms |-> SelectSeq(SymTab, LAMBDA s : s.st_shndx # SHN_UNDEF)] }

\* format!("can not find symbol:{}", name): the pieces of the text, in order
format_can_not_find(name) == << "can not find symbol:", name >>

find_symbol_error(msg) == [kind |-> "FindSymbolError", msg |-> msg]

\* faulty variant, for sensitivity: the symbol's value without the base, the
\* message without the name
Dylib_get_bare(lib, name) ==
    IF get_sym(lib, name).some
    THEN Ok([ptr |-> get_sym(lib, name).v.st_value])
    ELSE Err([kind |-> "FindSymbolError", msg |-> << "can not find symbol:" >>])

\* Dylib::get
Dylib_get(lib, name) ==
    IF get_sym(lib, name).some
    THEN Ok([ptr |-> lib.base + get_sym(lib, name).v.st_value])
    ELSE Err(find_symbol_error(format_can_not_find(name)))

\* RelocatedDylib::get
RelocatedDylib_get(lib, name) == Dylib_get(lib, name)

outside_get == << vars, hvars, dvars, bvars, ovars >>

InitGet ==
    /\ dylib \in Dylibs
    /\ gets = << >>
    /\ ObjectIdle
    /\ RelocationIdle
    /\ HandlesIdle
    /\ DynamicIdle
    /\ BootIdle

\* the call lib.get(name); get takes &self and writes nothing of the image
get(name) ==
    /\ Len(gets) < MaxGets
    /\ gets' = Append(gets, [name |-> name, ret |-> RelocatedDylib_get(dylib, name)])
    /\ UNCHANGED dylib
    /\ UNCHANGED outside_get

NextGet == \E name \in Names : get(name)

SpecGet == InitGet /\ [][NextGet]_gvars

\* ---------------------------------------------------------------- C19
\* the symbol of the image's index with this name, if there is one
Indexed(name) == { i \in 1 .. Len(dylib.syms) : dylib.syms[i].st_name = name }

\* every get made so far returned what the index holds for its name
GetResults ==
    \A k \in 1 .. Len(gets) :
        LET name == gets[k].name
            ret  == gets[k].ret
        IN IF Indexed(name) # {}
           THEN /\ ret.ok
                /\ get_sym(dylib, name).some
                /\ ret.v.ptr = dylib.base + get_sym(dylib, name).v.st_value
                /\ \E i \in Indexed(name) :
                       ret.v.ptr = dylib.base + dylib.syms[i].st_value
           ELSE /\ ~ret.ok
                /\ ret.err.kind = "FindSymbolError"
                /\ name \in Range(ret.err.msg)

\* C19: get(name) returns base + st_value of the symbol the index finds for
\* name, and a FindSymbolError whose message contains name when the index
\* finds none; get never changes the image.
C19_GetReturnsAddress == [][dylib' = dylib /\ GetResults']_gvars

\* a get that found a symbol and a get that found none, on one image
C19_Witness ==
    /\ Len(gets) = 2
    /\ gets[1].ret.ok /\ gets[1].ret.v.ptr = dylib.base + 512
    /\ ~gets[2].ret.ok /\ gets[2].name = "h"

\* ================================== the bootstrap (mini-loader/src/main.rs)
MaxRelas == 3   \* the entries of the loader's own DT_RELA table

\* usize on the bootstrap's target: 64 bits, held as four 16-bit limbs, the
\* least significant first
Limb == 65536

U64(l0, l1, l2, l3) == << l0, l1, l2, l3 >>

\* a small number as a usize
Usize(n) == U64(n % Limb, (n \div Limb) % Limb, 0, 0)

\* a + b on usize, for operands whose sum fits
add64(a, b) ==
    LET s1 == a[1] + b[1]
        s2 == a[2] + b[2] + (s1 \div Limb)
        s3 == a[3] + b[3] + (s2 \div Limb)
        s4 == a[4] + b[4] + (s3 \div Limb)
    IN U64(s1 % Limb, s2 % Limb, s3 % Limb, s4 % Limb)

\* a - b on usize, for a >= b
sub64(a, b) ==
    LET d1 == a[1] - b[1]
        d2 == a[2] - b[2] - (IF d1 < 0 THEN 1 ELSE 0)
        d3 == a[3] - b[3] - (IF d2 < 0 THEN 1 ELSE 0)
        d4 == a[4] - b[4] - (IF d3 < 0 THEN 1 ELSE 0)
    IN U64(d1 % Limb, d2 % Limb, d3 % Limb, d4 % Limb)

DT_RELACOUNT == 1879048185
PT_LOAD == 1
PT_DYNAMIC == 2

\* where the linker put the loader's dynamic section and its DT_RELA table
DynVaddr == 3584
RelaVaddr == 768

\* the bases the kernel maps the loader at
LoadBases == { U64(0, 0, 32767, 0), U64(16384, 21845, 21845, 0) }

\* the words relocation entries can point at, and one word behind them
SlotOffset(k) == 16 + 8 * k
SlotAddend(k) == 512 + 8 * k
Slots == 0 .. (MaxRelas - 1)
WordOffsets == { SlotOffset(k) : k \in 0 .. MaxRelas }

\* the word the file holds at an offset
BootFileWord(o) == Usize(o + 1)

\* the orders of the words 0 .. MaxRelas - 1 in a table: rising and falling
Orders ==
    { [i \in 1 .. MaxRelas |-> i - 1], [i \in 1 .. MaxRelas |-> MaxRelas - i] }

\* The DT_RELA tables of a linked loader: every entry has a word of its own;
\* the entries are RELATIVE, but for at most one of them (other = 0: none).
RelaTables ==
    { [i \in 1 .. MaxRelas |->
          Rela(IF i = other THEN REL_OTHER ELSE REL_RELATIVE, 0,
               SlotOffset(f[i]), SlotAddend(f[i]))] :
        f \in Orders, other \in 0 .. MaxRelas }

\* the loader's dynamic section: DT_RELA and DT_RELACOUNT if it has them, a
\* tag the bootstrap skips, DT_NULL
BootDyn(has_rela, has_count, count, rev) ==
    LET body == (IF has_rela THEN << Dyn(DT_RELA, RelaVaddr) >> ELSE << >>)
                \o << Dyn(DT_SYMTAB, 64) >>
                \o (IF has_count THEN << Dyn(DT_RELACOUNT, count) >> ELSE << >>)
    IN (IF rev THEN Reverse(body) ELSE body) \o << Dyn(DT_NULL, 0) >>

\* the dynamic sections under test, for a count
BootDyns(count) ==
    { BootDyn(TRUE, TRUE, count, FALSE), BootDyn(TRUE, TRUE, count, TRUE),
      BootDyn(FALSE, TRUE, count, FALSE), BootDyn(TRUE, FALSE, count, FALSE) }

Phdr(type, vaddr) == [p_type |-> type, p_vaddr |-> vaddr]

MaxArgs == 3   \* argc: the loader's own name, the target path and its arguments

AT_NULL == 0
AT_PHDR == 3
AT_PHENT == 4
AT_PHNUM == 5
AT_PAGESZ == 6
AT_BASE == 7
AT_ENTRY == 9
AT_RANDOM == 25
AT_EXECFN == 31
PT_INTERP == 3

\* size_of::<Phdr>() on the 64-bit target
PhdrSize == 56

\* the strings argv and envp point at
ArgPtr(i) == Usize(28672 + 16 * i)
EnvPtr(j) == Usize(30720 + 16 * j)

\* the environments the loader is started with
Envs == { << >>, << EnvPtr(0), EnvPtr(1) >> }

Aux(tag, val) == [tag |-> tag, val |-> val]

\* The auxiliary vectors the kernel builds for a loader mapped at lb: one with
\* every tag rust_main looks at and two it does not, one without AT_PHENT and
\* AT_EXECFN and in another order.
AuxVectors(lb, at_base) ==
    { << Aux(AT_PHDR, add64(lb, Usize(64))), Aux(AT_PHENT, Usize(PhdrSize)),
         Aux(AT_PHNUM, Usize(2)), Aux(AT_PAGESZ, Usize(4096)),
         Aux(AT_BASE, at_base), Aux(AT_ENTRY, add64(lb, Usize(4096))),
         Aux(AT_RANDOM, Usize(29000)), Aux(AT_EXECFN, Usize(28000)),
         Aux(AT_NULL, Usize(0)) >>,
      << Aux(AT_PAGESZ, Usize(4096)), Aux(AT_ENTRY, add64(lb, Usize(4096))),
         Aux(AT_BASE, at_base), Aux(AT_PHNUM, Usize(2)),
         Aux(AT_PHDR, add64(lb, Usize(64))), Aux(AT_NULL, Usize(0)) >> }

\* the word that lies on the stack behind the auxiliary vector
StackTail == Usize(31000)

\* the stack at entry (main.rs:55-60): argc, argv, 0, envp, 0, auxv
Stack(argc, env, aux) ==
    << Usize(argc) >> \o [i \in 1 .. argc |-> ArgPtr(i - 1)] \o << Usize(0) >>
    \o env \o << Usize(0) >>
    \o [k \in 1 .. (2 * Len(aux)) |->
           IF k % 2 = 1 THEN Usize(aux[(k + 1) \div 2].tag) ELSE aux[k \div 2].val]
    \o << StackTail >>

\* the program headers AT_PHDR / AT_PHNUM give when the kernel starts the
\* loader as the interpreter of an executable: those of the executable, with
\* a PT_DYNAMIC of its own
ExeDynVaddr == 7680
ExePhdrs == << Phdr(PT_INTERP, 736), Phdr(PT_DYNAMIC, ExeDynVaddr) >>

\* what rust_main is entered with; AT_BASE is the load base when the loader
\* runs as an interpreter and 0 when it is the program
BootInput(lb, interp, dyn, relas, stack) ==
    [load_base |-> lb,
     at_base |-> IF interp THEN lb ELSE Usize(0),
     phdrs |-> IF interp THEN ExePhdrs
               ELSE << Phdr(PT_LOAD, 0), Phdr(PT_DYNAMIC, DynVaddr) >>,
     dynv |-> add64(lb, Usize(DynVaddr)),
     dyn |-> dyn,
     relas |-> relas,
     stack |-> stack]

\* the stacks for a load base and an AT_BASE
Stacks(lb, interp) ==
    { Stack(argc, env, aux) :
        argc \in 1 .. MaxArgs, env \in Envs,
        aux \in AuxVectors(lb, IF interp THEN lb ELSE Usize(0)) }

\* DT_RELACOUNT counts entries of the table
BootInputs ==
    UNION { { BootInput(lbi[1], lbi[2], dyn, relas, stack) :
                dyn \in BootDyns(count), stack \in Stacks(lbi[1], lbi[2]) } :
            <<relas, count, lbi>> \in
                RelaTables \X (0 .. MaxRelas) \X (LoadBases \X BOOLEAN) }

\* the loop over the dynamic section (main.rs:78-88): rela and rela_count
\* after the entries from place i on, up to the DT_NULL
RECURSIVE boot_dyn_loop(_, _, _)
boot_dyn_loop(dyn, i, acc) ==
    IF dyn[i].d_tag = DT_NULL THEN acc
    ELSE boot_dyn_loop(dyn, i + 1,
            IF dyn[i].d_tag = DT_RELA THEN [acc EXCEPT !.rela = Some(dyn[i].d_un)]
            ELSE IF dyn[i].d_tag = DT_RELACOUNT
            THEN [acc EXCEPT !.rela_count = Some(dyn[i].d_un)]
            ELSE acc)

\* faulty variant, for sensitivity: AT_BASE is not looked at
boot_base_from_phdrs(in) ==
    IF \E i \in 1 .. Len(in.phdrs) : in.phdrs[i].p_type = PT_DYNAMIC
    THEN sub64(in.dynv,
               Usize(in.phdrs[CHOOSE i \in 1 .. Len(in.phdrs) :
                                 /\ in.phdrs[i].p_type = PT_DYNAMIC
                                 /\ \A j \in 1 .. (i - 1) :
                                        in.phdrs[j].p_type # PT_DYNAMIC].p_vaddr))
    ELSE Usize(0)

\* the base of main.rs:91-117: AT_BASE, or when that is 0, dynv - p_vaddr of
\* the first PT_DYNAMIC program header
boot_base(in) ==
    IF in.at_base # Usize(0) THEN in.at_base
    ELSE IF \E i \in 1 .. Len(in.phdrs) : in.phdrs[i].p_type = PT_DYNAMIC
    THEN sub64(in.dynv,
               Usize(in.phdrs[CHOOSE i \in 1 .. Len(in.phdrs) :
                                 /\ in.phdrs[i].p_type = PT_DYNAMIC
                                 /\ \A j \in 1 .. (i - 1) :
                                        in.phdrs[j].p_type # PT_DYNAMIC].p_vaddr))
    ELSE Usize(0)

\* core::slice::from_raw_parts(rela_ptr, rela_count): the entries read
boot_relas(in, rela_ptr, rela_count) ==
    IF rela_ptr = add64(in.load_base, Usize(RelaVaddr)) /\ rela_count <= Len(in.relas)
    THEN Some(SubSeq(in.relas, 1, rela_count))
    ELSE None

\* faulty variant, for sensitivity: the addend written without the base
self_reloc_val_no_base(base, rela) == Usize(rela.r_addend)

\* base + rela.r_append()
self_reloc_val(base, rela) == add64(base, Usize(rela.r_addend))

\* the loop of main.rs:121-127 from entry i on; write_ok is the outcome of
\* the write system call of print_str, whose Err is unwrapped
RECURSIVE boot_reloc_loop(_, _, _, _, _)
boot_reloc_loop(relas, i, base, write_ok, st) ==
    IF i > Len(relas) THEN st
    ELSE IF relas[i].r_type # REL_RELATIVE /\ ~write_ok
    THEN [st EXCEPT !.panicked = TRUE]
    ELSE boot_reloc_loop(relas, i + 1, base, write_ok,
            [mem |-> [st.mem EXCEPT ![add64(Usize(relas[i].r_offset), base)] =
                                       self_reloc_val(base, relas[i])],
             out |-> IF relas[i].r_type # REL_RELATIVE
                     THEN Append(st.out, "unknown rela type")
                     ELSE st.out,
             panicked |-> FALSE])

\* ------------------------------------------------ the stack (main.rs:63-72)
\* sp.add(i).read()
stack_word(stack, i) == stack[i + 1]

\* a word as a number, for the counts and tags of the stack
as_number(w) == w[1] + Limb * w[2]

\* argc = sp.read()
boot_argc(stack) == as_number(stack_word(stack, 0))

\* argv.add(i).read(), argv = sp.add(1)
boot_argv(stack, i) == stack_word(stack, 1 + i)

\* env = sp.add(argc + 1 + 1), as a count of words from sp
boot_env(stack) == boot_argc(stack) + 1 + 1

\* the loop of main.rs:68-71: env_count from the word cur on
RECURSIVE boot_env_count(_, _)
boot_env_count(stack, cur) ==
    IF stack_word(stack, cur) = Usize(0) THEN 0
    ELSE 1 + boot_env_count(stack, cur + 1)

\* auxv = env.add(env_count + 1), as a count of words from sp
boot_auxv(stack) ==
    boot_env(stack) + boot_env_count(stack, boot_env(stack)) + 1

\* ------------------------------------------- the images loaded (135-153)
\* The ElfDylib the loader returns for the target: its program headers and
\* where they lie, its entry and its base.
TargetImages ==
    { [phdrs_ptr |-> U64(64, 4096, 21845, 0),
       phdrs |-> << Phdr(PT_LOAD, 0), Phdr(PT_DYNAMIC, 512) >>,
       entry |-> 1024, base |-> U64(0, 4096, 21845, 0)],
      [phdrs_ptr |-> U64(64, 8192, 21845, 0),
       phdrs |-> << Phdr(PT_LOAD, 0), Phdr(PT_INTERP, 736), Phdr(PT_DYNAMIC, 512),
                    Phdr(PT_INTERP, 800) >>,
       entry |-> 1280, base |-> U64(0, 8192, 21845, 0)] }

\* the ElfDylib the loader returns for an interpreter
InterpImages == { [entry |-> 2048, base |-> U64(0, 0, 32512, 0)] }

\* faulty variant, for sensitivity: the entry as the file has it
ElfDylib_entry_unbased(lib) == Usize(lib.entry)

\* ElfDylib::entry
ElfDylib_entry(lib) == add64(Usize(lib.entry), lib.base)

\* the loop of main.rs:140-153 finds a PT_INTERP program header
has_interp(target) ==
    \E i \in 1 .. Len(target.phdrs) : target.phdrs[i].p_type = PT_INTERP

\* ------------------------------------------- the auxv rewrite (155-170)
\* faulty variant, for sensitivity: AT_ENTRY left as the kernel set it
aux_val_keeps_entry(tag, val, target, execfn) ==
    CASE tag = AT_PHDR -> target.phdrs_ptr
      [] tag = AT_PHNUM -> Usize(Len(target.phdrs))
      [] tag = AT_PHENT -> Usize(PhdrSize)
      [] tag = AT_EXECFN -> execfn
      [] tag = AT_BASE -> Usize(0)
      [] OTHER -> val

\* the match of main.rs:158-166: the val of an entry after it
aux_val(tag, val, target, execfn) ==
    CASE tag = AT_PHDR -> target.phdrs_ptr
      [] tag = AT_PHNUM -> Usize(Len(target.phdrs))
      [] tag = AT_PHENT -> Usize(PhdrSize)
      [] tag = AT_ENTRY -> ElfDylib_entry(target)
      [] tag = AT_EXECFN -> execfn
      [] tag = AT_BASE -> Usize(0)
      [] OTHER -> val

\* the loop of main.rs:157-170 from the entry at word cur on: the stack after
\* it and the place of the AT_NULL entry
RECURSIVE boot_aux_loop(_, _, _)
boot_aux_loop(stack, cur, target) ==
    IF as_number(stack_word(stack, cur)) = AT_NULL
    THEN [stack |-> stack, cur_aux |-> cur]
    ELSE boot_aux_loop(
            [stack EXCEPT ![cur + 2] =
                aux_val(as_number(stack_word(stack, cur)), stack_word(stack, cur + 1),
                        target, boot_argv(stack, 1))],
            cur + 2, target)

\* --------------------------------------------- the argv shift (176-179)
\* faulty variant, for sensitivity: the copy stops in front of the AT_NULL entry
shift_words_short(cur_aux) == cur_aux - 1

\* size / size_of::<usize>(): the words from sp.add(1) to the end of the
\* AT_NULL entry, cur_aux_ptr.add(1)
shift_words(cur_aux) == (cur_aux + 2) - 1

\* core::ptr::copy(sp.add(1), sp, n), then sp.write(argc - 1)
boot_shift(stack, n, argc) ==
    [i \in 1 .. Len(stack) |->
        IF i = 1 THEN sub64(argc, Usize(1))
        ELSE IF i <= n THEN stack[i + 1]
        ELSE stack[i]]

outside_boot == << vars, hvars, dvars, gvars, ovars >>

InitBoot ==
    /\ boot_in \in BootInputs
    /\ boot_pc = "start"
    /\ boot_locals = [rela |-> None, rela_count |-> None, base |-> None,
                      dylib |-> None, interp_dylib |-> None, cur_aux |-> None]
    /\ boot_stack = boot_in.stack
    /\ boot_jumps = << >>
    /\ boot_mem = [a \in { add64(boot_in.load_base, Usize(o)) : o \in WordOffsets } |->
                      BootFileWord(sub64(a, boot_in.load_base)[1])]
    /\ boot_out = << >>
    /\ ObjectIdle
    /\ RelocationIdle
    /\ HandlesIdle
    /\ DynamicIdle
    /\ GetIdle

\* main.rs:74-90: the walk over the dynamic section and the two unwraps
boot_scan_dynamic ==
    /\ boot_pc = "start"
    /\ \E acc \in { boot_dyn_loop(boot_in.dyn, 1, boot_locals) } :
          /\ boot_locals' = acc
          /\ boot_pc' = IF acc.rela.some /\ acc.rela_count.some
                        THEN "scanned" ELSE "panicked"
    /\ UNCHANGED << boot_in, boot_mem, boot_out, boot_stack, boot_jumps >>
    /\ UNCHANGED outside_boot

\* main.rs:91-117: the walk over the auxiliary vector and the base
boot_find_base ==
    /\ boot_pc = "scanned"
    /\ boot_locals' = [boot_locals EXCEPT !.base = Some(boot_base(boot_in))]
    /\ boot_pc' = "based"
    /\ UNCHANGED << boot_in, boot_mem, boot_out, boot_stack, boot_jumps >>
    /\ UNCHANGED outside_boot

\* main.rs:118-127: the loader relocates itself
boot_self_relocate(write_ok) ==
    /\ boot_pc = "based"
    /\ \E relas \in { boot_relas(boot_in,
                                 add64(Usize(boot_locals.rela.v), boot_locals.base.v),
                                 boot_locals.rela_count.v) } :
          IF relas.some
          THEN \E st \in { boot_reloc_loop(relas.v, 1, boot_locals.base.v, write_ok,
                                           [mem |-> boot_mem, out |-> boot_out,
                                            panicked |-> FALSE]) } :
                  /\ boot_mem' = st.mem
                  /\ boot_out' = st.out
                  /\ boot_pc' = IF st.panicked THEN "panicked" ELSE "relocated"
          ELSE /\ boot_pc' = "faulted"
               /\ UNCHANGED << boot_mem, boot_out >>
    /\ UNCHANGED << boot_in, boot_locals, boot_stack, boot_jumps >>
    /\ UNCHANGED outside_boot

\* main.rs:129-132: the heap, then the check of argc
boot_init_heap ==
    /\ boot_pc = "relocated"
    /\ IF boot_argc(boot_stack) = 1
       THEN /\ boot_pc' = "panicked"
            /\ boot_out' = Append(boot_out, "no input file")
       ELSE /\ boot_pc' = "heap"
            /\ UNCHANGED boot_out
    /\ UNCHANGED << boot_in, boot_locals, boot_mem, boot_stack, boot_jumps >>
    /\ UNCHANGED outside_boot

\* main.rs:134-153: the target is loaded, and its interpreter if it names
\* one; target and interp are what the two load_dylib calls return, None for
\* an Err, which is unwrapped
boot_load(target, interp) ==
    /\ boot_pc = "heap"
    /\ (target.some /\ has_interp(target.v)) \/ ~interp.some
    /\ IF ~target.some \/ (has_interp(target.v) /\ ~interp.some)
       THEN /\ boot_pc' = "panicked"
            /\ UNCHANGED boot_locals
       ELSE /\ boot_pc' = "loaded"
            /\ boot_locals' = [boot_locals EXCEPT !.dylib = target,
                                                  !.interp_dylib = interp]
    /\ UNCHANGED << boot_in, boot_mem, boot_out, boot_stack, boot_jumps >>
    /\ UNCHANGED outside_boot

\* main.rs:155-170: the auxiliary vector is rewritten for the target
boot_rewrite_auxv ==
    /\ boot_pc = "loaded"
    /\ \E r \in { boot_aux_loop(boot_stack, boot_auxv(boot_stack),
                                boot_locals.dylib.v) } :
          /\ boot_stack' = r.stack
          /\ boot_locals' = [boot_locals EXCEPT !.cur_aux = Some(r.cur_aux)]
    /\ boot_pc' = "rewritten"
    /\ UNCHANGED << boot_in, boot_mem, boot_out, boot_jumps >>
    /\ UNCHANGED outside_boot

\* main.rs:176-179: argv is moved a word down over the loader's own name
boot_shift_argv ==
    /\ boot_pc = "rewritten"
    /\ boot_stack' = boot_shift(boot_stack, shift_words(boot_locals.cur_aux.v),
                                stack_word(boot_stack, 0))
    /\ boot_pc' = "shifted"
    /\ UNCHANGED << boot_in, boot_locals, boot_mem, boot_out, boot_jumps >>
    /\ UNCHANGED outside_boot

\* main.rs:181-185: trampoline(entry, sp), which does not return
boot_trampoline ==
    /\ boot_pc = "shifted"
    /\ boot_jumps' = Append(boot_jumps,
          [entry |-> IF boot_locals.interp_dylib.some
                     THEN ElfDylib_entry(boot_locals.interp_dylib.v)
                     ELSE ElfDylib_entry(boot_locals.dylib.v),
           sp |-> 0])
    /\ boot_pc' = "transferred"
    /\ UNCHANGED << boot_in, boot_locals, boot_mem, boot_out, boot_stack >>
    /\ UNCHANGED outside_boot

\* what load_dylib returns
Loaded(S) == { None } \cup { Some(x) : x \in S }

NextBoot ==
    \/ boot_scan_dynamic
    \/ boot_find_base
    \/ \E write_ok \in BOOLEAN : boot_self_relocate(write_ok)
    \/ boot_init_heap
    \/ \E target \in Loaded(TargetImages) : \E interp \in Loaded(InterpImages) :
          boot_load(target, interp)
    \/ boot_rewrite_auxv
    \/ boot_shift_argv
    \/ boot_trampoline

SpecBoot == InitBoot /\ [][NextBoot]_bvars

\* ---------------------------------------------------------------- C20
\* the d_un of the loader's DT_RELACOUNT entry
RelaCount ==
    boot_in.dyn[CHOOSE i \in 1 .. Len(boot_in.dyn) :
                    boot_in.dyn[i].d_tag = DT_RELACOUNT].d_un

\* the address of the word an entry of the DT_RELA table points at
TargetOf(i) == add64(boot_in.load_base, Usize(boot_in.relas[i].r_offset))

\* C20: after the self-relocation step the word at base + r_offset is
\* base + r_addend for each of the first DT_RELACOUNT entries of the DT_RELA
\* table, and every other word is as the file has it.
C20_SelfRelocation ==
    boot_pc = "relocated" =>
        /\ \A i \in 1 .. RelaCount :
               boot_mem[TargetOf(i)] =
                   add64(boot_in.load_base, Usize(boot_in.relas[i].r_addend))
        /\ \A o \in WordOffsets :
               (\A i \in 1 .. RelaCount : boot_in.relas[i].r_offset # o) =>
                   boot_mem[add64(boot_in.load_base, Usize(o))] = BootFileWord(o)

\* the loader mapped at 0x7fff_0000_0000 with the entries (0x10, 0x200),
\* (0x18, 0x208), (0x20, 0x210), all three counted: the three words are
\* 0x7fff_0000_0200, 0x7fff_0000_0208 and 0x7fff_0000_0210
C20_Witness ==
    /\ boot_pc = "relocated"
    /\ boot_in.load_base = U64(0, 0, 32767, 0)
    /\ boot_in.relas = << Rela(REL_RELATIVE, 0, 16, 512),
                          Rela(REL_RELATIVE, 0, 24, 520),
                          Rela(REL_RELATIVE, 0, 32, 528) >>
    /\ RelaCount = 3
    /\ boot_mem[U64(16, 0, 32767, 0)] = U64(512, 0, 32767, 0)
    /\ boot_mem[U64(24, 0, 32767, 0)] = U64(520, 0, 32767, 0)
    /\ boot_mem[U64(32, 0, 32767, 0)] = U64(528, 0, 32767, 0)
    /\ boot_mem[U64(40, 0, 32767, 0)] = BootFileWord(40)

\* ---------------------------------------------------------------- C21
\* the positions of rust_main behind the self-relocation loop
BehindSelfRelocation ==
    {"relocated", "heap", "loaded", "rewritten", "shifted", "transferred"}

\* the counted entries of the loader's DT_RELA table that are not RELATIVE
UnknownEntries ==
    IF \E i \in 1 .. Len(boot_in.dyn) : boot_in.dyn[i].d_tag = DT_RELACOUNT
    THEN { i \in 1 .. RelaCount : boot_in.relas[i].r_type # REL_RELATIVE }
    ELSE {}

\* C21: when one of the first DT_RELACOUNT entries is not RELATIVE the
\* bootstrap aborts: no word is written for that entry, and rust_main never
\* gets to the heap, the loading of the target or the transfer.
C21_UnknownTypeAborts ==
    UnknownEntries # {} =>
        /\ boot_pc \notin BehindSelfRelocation
        /\ \A i \in UnknownEntries :
               boot_mem[TargetOf(i)] = BootFileWord(boot_in.relas[i].r_offset)

\* ---------------------------------------------------------------- C22
\* the auxiliary vector as the kernel left it: the word its first entry is
\* at, counted from sp, and the number of its entries, the AT_NULL one included
Argc0 == as_number(boot_in.stack[1])

EnvCount0 ==
    CHOOSE m \in 0 .. Len(boot_in.stack) :
        /\ boot_in.stack[1 + Argc0 + 1 + m + 1] = Usize(0)
        /\ \A j \in 1 .. m : boot_in.stack[1 + Argc0 + 1 + j] # Usize(0)

AuxAt0 == 1 + Argc0 + 1 + EnvCount0 + 1

AuxCount0 ==
    CHOOSE c \in 1 .. Len(boot_in.stack) :
        /\ boot_in.stack[AuxAt0 + 2 * (c - 1) + 1] = Usize(AT_NULL)
        /\ \A k \in 1 .. (c - 1) : boot_in.stack[AuxAt0 + 2 * (k - 1) + 1] # Usize(AT_NULL)

AuxTag0(k) == boot_in.stack[AuxAt0 + 2 * (k - 1) + 1]
AuxVal0(k) == boot_in.stack[AuxAt0 + 2 * (k - 1) + 2]

\* the entries at the transfer, where sp points one word in front of them
AuxTag(k) == boot_stack[AuxAt0 - 1 + 2 * (k - 1) + 1]
AuxVal(k) == boot_stack[AuxAt0 - 1 + 2 * (k - 1) + 2]

TargetImage == boot_locals.dylib.v

\* C22: at the transfer AT_PHDR, AT_PHNUM, AT_PHENT and AT_ENTRY describe the
\* target, AT_EXECFN is the old argv[1], AT_BASE is 0, and every other entry
\* up to and including AT_NULL has the tag and value it had, in the old order.
C22_AuxvRewritten ==
    boot_pc = "transferred" =>
        \A k \in 1 .. AuxCount0 :
            /\ AuxTag(k) = AuxTag0(k)
            /\ AuxVal(k) =
                 (CASE AuxTag0(k) = Usize(AT_PHDR) -> TargetImage.phdrs_ptr
                    [] AuxTag0(k) = Usize(AT_PHNUM) -> Usize(Len(TargetImage.phdrs))
                    [] AuxTag0(k) = Usize(AT_PHENT) -> Usize(PhdrSize)
                    [] AuxTag0(k) = Usize(AT_ENTRY) ->
                           add64(TargetImage.base, Usize(TargetImage.entry))
                    [] AuxTag0(k) = Usize(AT_EXECFN) -> boot_in.stack[3]
                    [] AuxTag0(k) = Usize(AT_BASE) -> Usize(0)
                    [] OTHER -> AuxVal0(k))

\* the transfer was made with an interpreter loaded and an auxiliary vector
\* that has the six tags and two others
C22_Witness ==
    /\ boot_pc = "transferred"
    /\ boot_locals.interp_dylib.some
    /\ AuxCount0 = 9
    /\ boot_in.at_base # Usize(0)
    /\ \E k \in 1 .. AuxCount0 :
          AuxTag(k) = Usize(AT_ENTRY) /\ AuxVal(k) = U64(1280, 8192, 21845, 0)
    /\ \E k \in 1 .. AuxCount0 : AuxTag(k) = Usize(AT_BASE) /\ AuxVal(k) = Usize(0)
    /\ \E k \in 1 .. AuxCount0 : AuxTag(k) = Usize(AT_RANDOM) /\ AuxVal(k) = Usize(29000)

\* ---------------------------------------------------------------- C23
\* the number of words from the old sp to the end of the AT_NULL entry
StackWords0 == AuxAt0 + 2 * AuxCount0

\* C23: at the transfer the word at the old sp is argc - 1; behind it lie the
\* old argv[1 ..], its NULL, the envp pointers, their NULL and the auxiliary
\* vector with its AT_NULL entry, each one word lower than before; the
\* loader's own argv[0] is on the stack no more.
C23_StackShifted ==
    boot_pc = "transferred" =>
        /\ boot_stack[1] = sub64(boot_in.stack[1], Usize(1))
        /\ \A j \in 3 .. AuxAt0 : boot_stack[j - 1] = boot_in.stack[j]
        /\ \A k \in 1 .. AuxCount0 : AuxTag(k) = AuxTag0(k)
        /\ AuxVal(AuxCount0) = AuxVal0(AuxCount0)
        /\ \A j \in 1 .. (StackWords0 - 1) : boot_stack[j] # boot_in.stack[2]
        /\ \A j \in (StackWords0 + 1) .. Len(boot_stack) : boot_stack[j] = boot_in.stack[j]

\* the transfer was made for a loader started with a target path, one
\* argument for it and two environment strings
C23_Witness ==
    /\ boot_pc = "transferred"
    /\ boot_in.stack[1] = Usize(3)
    /\ SubSeq(boot_stack, 1, 7) =
          << Usize(2), ArgPtr(1), ArgPtr(2), Usize(0), EnvPtr(0), EnvPtr(1), Usize(0) >>
    /\ boot_stack[8] = Usize(AT_PHDR)

\* ---------------------------------------------------------------- C24
\* the entry the transfer has to go to
TransferEntry ==
    IF \E i \in 1 .. Len(TargetImage.phdrs) : TargetImage.phdrs[i].p_type = PT_INTERP
    THEN add64(boot_locals.interp_dylib.v.base, Usize(boot_locals.interp_dylib.v.entry))
    ELSE add64(TargetImage.base, Usize(TargetImage.entry))

\* C24: the bootstrap transfers control once, when the auxiliary vector is
\* rewritten and argv is shifted, to the interpreter's entry if the target has
\* a PT_INTERP program header and to the target's entry otherwise; nothing of
\* rust_main runs after the transfer.
C24_TransferOnce ==
    [][/\ boot_pc # "transferred"
       /\ boot_jumps' # boot_jumps =>
            /\ boot_jumps = << >>
            /\ boot_jumps' = << [entry |-> TransferEntry, sp |-> 0] >>
            /\ boot_pc = "shifted"
            /\ boot_stack[1] = sub64(boot_in.stack[1], Usize(1))
            /\ \A k \in 1 .. AuxCount0 :
                   AuxTag(k) = Usize(AT_BASE) => AuxVal(k) = Usize(0)
            /\ boot_stack' = boot_stack]_bvars

\* a target with a PT_INTERP program header: the transfer went to the
\* interpreter's entry
C24_Witness ==
    /\ boot_pc = "transferred"
    /\ boot_locals.interp_dylib.some
    /\ boot_jumps = << [entry |-> U64(2048, 0, 32512, 0), sp |-> 0] >>

\* a target without one: the transfer went to the target's entry
C24_WitnessStatic ==
    /\ boot_pc = "transferred"
    /\ ~boot_locals.interp_dylib.some
    /\ boot_jumps = << [entry |-> U64(1024, 4096, 21845, 0), sp |-> 0] >>

\* =========================================== ElfBinary::read (object.rs)
MaxBytes == 3   \* the length of the byte buffer of an ElfBinary
MaxReads == 2   \* the read calls made on one object

\* the byte of a file at a place
FileByte(i) == 16 + i

\* the lengths of the buffers read into
BufLens == {0, 1, 2}

\* the bytes of a buffer before the read
BufByte == 255

\* the in-memory objects: ElfBinary::new(name, bytes)
Binaries == { [i \in 1 .. n |-> FileByte(i - 1)] : n \in 0 .. MaxBytes }

\* &self.bytes[offset .. offset + buf.len()]: the index is in range
slice_in_range(bytes, offset, len) == offset + len <= Len(bytes)

\* ElfBinary::read: what the call returns and buf after it; a slice index
\* out of range panics
ElfBinary_read(bytes, buf, offset) ==
    IF slice_in_range(bytes, offset, Len(buf))
    THEN [kind |-> "Ok", buf |-> SubSeq(bytes, offset + 1, offset + Len(buf))]
    ELSE [kind |-> "panic", buf |-> buf]

outside_object == << vars, hvars, dvars, gvars, bvars >>

InitObject ==
    /\ binary \in Binaries
    /\ reads = << >>
    /\ RelocationIdle
    /\ HandlesIdle
    /\ DynamicIdle
    /\ GetIdle
    /\ BootIdle

\* the call object.read(buf, offset)
read(len, offset) ==
    /\ Len(reads) < MaxReads
    /\ \A k \in 1 .. Len(reads) : reads[k].ret.kind # "panic"
    /\ \E buf \in { [i \in 1 .. len |-> BufByte] } :
          reads' = Append(reads, [buf |-> buf, offset |-> offset,
                                  ret |-> ElfBinary_read(binary, buf, offset)])
    /\ UNCHANGED binary
    /\ UNCHANGED outside_object

NextObject == \E len \in BufLens : \E offset \in 0 .. (MaxBytes + 1) : read(len, offset)

SpecObject == InitObject /\ [][NextObject]_ovars

\* ---------------------------------------------------------------- C25
\* C25: ElfBinary::read either copies the buf.len() bytes from offset on into
\* buf and returns Ok, or returns an error; a request that reaches past the end
\* of the bytes returns an error and does not abort.
C25_ReadCopiesOrFails ==
    \A k \in 1 .. Len(reads) :
        LET r == reads[k] IN
        /\ r.ret.kind \in {"Ok", "Err"}
        /\ r.ret.kind = "Ok" =>
              /\ Len(r.ret.buf) = Len(r.buf)
              /\ \A i \in 1 .. Len(r.buf) : r.ret.buf[i] = binary[r.offset + i]
        /\ r.offset + Len(r.buf) > Len(binary) => r.ret.kind = "Err"


\* ================================== the bitmap of one array across the calls
\* the last relocate call returned to its caller (a call that panics unwinds
\* through the image, which relocate holds by value)
CallReturned == last.some /\ phase # "panicked"

\* the handler calls the last call made on the array of a kind, in call order
CallsOn(k) == SelectSeq(handled, LAMBDA h : h.kind = k)

\* the indices of those calls, in call order
IdxCalled(k) == [n \in 1 .. Len(CallsOn(k)) |-> CallsOn(k)[n].idx]

\* the image, the libs or the resolver of the last call define the symbol
\* an entry needs
Found(rela) ==
    DefinedInImage(rela) \/ Defined(rela, last.v.libs, last.v.find_symbol)

\* the word of an entry before the last call
WordBefore(rela) == last.v.mem[image.base + rela.r_offset]

\* ---------------------------------------------------------------- C26
\* C26: within one relocate invocation a bit that was cleared (its entry
\* failed earlier) is set again only if the entry's relocation succeeds in
\* that invocation: when the call returns with such a bit set, the handler
\* was called for that entry in this call, the symbol was found and the word
\* was stored.
C26_ClearedBitSetOnlyOnSuccess ==
    CallReturned =>
        \A k \in Kinds : ArrOf(k).some =>
            \A i \in Unresolved(PreArrOf(k).v) :
                BitIsSet(ArrOf(k).v.state.relocated, i) =>
                    /\ i \in Range(IdxCalled(k))
                    /\ Found(ArrOf(k).v.array[i + 1])
                    /\ WordOf(ArrOf(k).v.array[i + 1])
                          # WordBefore(ArrOf(k).v.array[i + 1])

\* the case of C26 happens: of two entries that had failed, a later call
\* relocated one, whose bit is set again, and failed on the other, whose bit
\* is cleared again
C26_Witness ==
    /\ CallReturned
    /\ \E k \in Kinds :
          /\ ArrOf(k).some
          /\ \E i \in Unresolved(PreArrOf(k).v) :
                BitIsSet(ArrOf(k).v.state.relocated, i)
          /\ \E j \in Unresolved(PreArrOf(k).v) :
                /\ j \in Range(IdxCalled(k))
                /\ ~BitIsSet(ArrOf(k).v.state.relocated, j)

\* ---------------------------------------------------------------- C27
\* the last call returned and ran a pass of stage Relocating over the array
\* of a kind
RelocatingPassOn(k) ==
    /\ CallReturned
    /\ Attempted(k)
    /\ PreArrOf(k).v.state.stage = "Relocating"

\* the entries of an array whose bit was set when the last call began
SetBefore(k) ==
    { i \in Indices(PreArrOf(k).v) : BitIsSet(PreArrOf(k).v.state.relocated, i) }

\* every handler call of the last call found the bit of its entry set
BitSetAtCall(k) == \A n \in 1 .. Len(CallsOn(k)) : CallsOn(k)[n].bit

\* C27 (as stated): in a relocate call on an array in stage Relocating the
\* handler is invoked exactly for the entries whose bit is set at the start
\* of the pass, and each such bit is set before its handler is called.
C27_HandlesSetBits ==
    \A k \in Kinds : RelocatingPassOn(k) =>
        /\ Range(IdxCalled(k)) = SetBefore(k)
        /\ BitSetAtCall(k)

\* C27 (amended): in a relocate call on an array in stage Relocating the
\* handler is invoked exactly for the entries whose bit is cleared at the
\* start of the pass (the entries that failed before; a set bit marks an
\* entry that is relocated), and each such bit is set before its handler is
\* called.
C27_HandlesClearedBits ==
    \A k \in Kinds : RelocatingPassOn(k) =>
        /\ Range(IdxCalled(k)) = MissingBefore(k)
        /\ BitSetAtCall(k)

\* the case of C27 happens: a pass of stage Relocating over an array with
\* both relocated and failed entries called the handler
C27_Witness ==
    \E k \in Kinds :
        /\ RelocatingPassOn(k)
        /\ SetBefore(k) # {}
        /\ MissingBefore(k) # {}
        /\ Len(CallsOn(k)) > 0

\* ---------------------------------------------------------------- C28
\* the last call ran a pass of stage Relocating over the array of a kind,
\* whether it returned or panicked on the way
InRelocatingPass(k) ==
    /\ last.some
    /\ Attempted(k)
    /\ PreArrOf(k).v.state.stage = "Relocating"

\* the entries the handler was called for in the call before the last one
\* (the pass before the last pass, in an array of stage Relocating)
CalledBefore(k) ==
    { last.v.handled[n].idx : n \in { m \in 1 .. Len(last.v.handled) :
                                         last.v.handled[m].kind = k } }

\* the entries that failed in that pass: it called the handler for them and
\* left their bit cleared
FailedBefore(k) ==
    { i \in CalledBefore(k) : ~BitIsSet(PreArrOf(k).v.state.relocated, i) }

\* a sequence of numbers rises strictly (so that it has no number twice)
Rising(seq) == \A m \in 1 .. Len(seq) : \A n \in 1 .. Len(seq) : m < n => seq[m] < seq[n]

\* C28: an entry whose relocation has succeeded is never processed again: a
\* pass of stage Relocating invokes the handler exactly for the entries that
\* failed in the previous pass, each once and in increasing index order, and
\* never for an index at or beyond the array length.
C28_OnlyFailedEntriesInOrder ==
    \A k \in Kinds :
        /\ InRelocatingPass(k) =>
              /\ Range(IdxCalled(k)) \subseteq FailedBefore(k)
              /\ Range(IdxCalled(k)) \cap SetBefore(k) = {}
              /\ Rising(IdxCalled(k))
              /\ \A n \in 1 .. Len(IdxCalled(k)) :
                    IdxCalled(k)[n] < Len(ArrOf(k).v.array)
        /\ RelocatingPassOn(k) => Range(IdxCalled(k)) = FailedBefore(k)

\* the case of C28 happens: on an array longer than one bitmap unit, a pass
\* of stage Relocating handled two entries, one in each unit, and left one
\* of them failed; the next pass handled that one alone
C28_Witness ==
    \E k \in Kinds :
        /\ RelocatingPassOn(k)
        /\ Len(ArrOf(k).v.array) > UnitBits
        /\ Cardinality(CalledBefore(k)) = 2
        /\ \E i \in CalledBefore(k) : i >= UnitBits
        /\ Cardinality(SetBefore(k) \cap CalledBefore(k)) = 1
        /\ Len(IdxCalled(k)) = 1

\* ---------------------------------------------------------------- C29
\* the words of the entries of an array are what they were before the last
\* call
WordsKept(k) ==
    \A i \in Indices(ArrOf(k).v) :
        WordOf(ArrOf(k).v.array[i + 1]) = WordBefore(ArrOf(k).v.array[i + 1])

\* C29: at the end of every relocate call, for each array the call
\* processed, the stage is Finish exactly when no entry's bit is cleared and
\* Relocating exactly when some entry's bit is cleared; and an array whose
\* stage is Finish stays in Finish, a later call invoking no handler and
\* writing no word for it.
C29_StageFollowsBitmap ==
    CallReturned =>
        \A k \in Kinds : Attempted(k) =>
            /\ ArrOf(k).v.state.stage = "Finish" <=> Unresolved(ArrOf(k).v) = {}
            /\ ArrOf(k).v.state.stage = "Relocating" <=> Unresolved(ArrOf(k).v) # {}
            /\ PreArrOf(k).v.state.stage = "Finish" =>
                  /\ ArrOf(k).v.state = PreArrOf(k).v.state
                  /\ CallsOn(k) = << >>
                  /\ WordsKept(k)

\* the case of C29 happens: a call ended with one array in Finish and the
\* other in Relocating, and the call after it, which relocated the entries
\* left, found the first array in Finish
C29_Witness ==
    /\ CallReturned
    /\ calls >= 2
    /\ \E k \in Kinds :
          /\ Attempted(k)
          /\ Len(ArrOf(k).v.array) > 0
          /\ PreArrOf(k).v.state.stage = "Finish"
    /\ \E k \in Kinds :
          /\ Attempted(k)
          /\ PreArrOf(k).v.state.stage = "Relocating"
          /\ ArrOf(k).v.state.stage = "Finish"

\* ---------------------------------------------------------------- C30
\* C30: finish on an image whose is_finished() is false always returns a
\* RelocateError and never aborts, also when relocate was never called on
\* the image and when a relocation array is present with zero entries.
C30_UnfinishedFinishReturnsError ==
    [][ FinishOnUnfinished
        => /\ phase' = "dropped"
           /\ result'.some
           /\ result'.v.kind = "RelocateError" ]_vars

\* ---------------------------------------------------------------- C31
\* finish returned an error: a RelocateError for an unfinished relocation,
\* or the error of the RELRO protection
FinishFailed ==
    /\ phase = "dropped"
    /\ result.some
    /\ result.v.kind \in {"RelocateError", "MmapError"}

\* C31: whenever finish returns an error, for an unfinished relocation or for
\* a failing RELRO protection, neither INIT nor any INIT_ARRAY function of
\* the image has been called.
C31_NoInitBeforeError ==
    FinishFailed => InitEvents = << >>

\* ---------------------------------------------------------------- C32
\* the record ElfRawDynamic::new accepted has an offset of a pair
\* (DT_JMPREL, DT_RELA, DT_INIT_ARRAY, DT_FINI_ARRAY, DT_VERNEED, DT_VERDEF)
\* without the size or count that goes with it
AcceptedWithoutCompanion ==
    /\ raw_dynamic.some
    /\ raw_dynamic.v.ok
    /\ \E off \in PairedOffsets :
          /\ raw_dynamic.v.v.opt[off].some
          /\ ~raw_dynamic.v.v.opt[Companion(off)].some

\* C32: for every dynamic table ElfRawDynamic::new accepts, finish(base)
\* never reads a size or count that is absent: whenever DT_JMPREL, DT_RELA,
\* DT_INIT_ARRAY, DT_FINI_ARRAY, DT_VERNEED or DT_VERDEF is in the accepted
\* record, its DT_PLTRELSZ, DT_RELASZ, DT_INIT_ARRAYSZ, DT_FINI_ARRAYSZ,
\* DT_VERNEEDNUM or DT_VERDEFNUM is there too, and finish returns (it does
\* not abort).
C32_SizesArePresent ==
    /\ ~AcceptedWithoutCompanion
    /\ elf_dynamic.some => elf_dynamic.v.ret.kind # "abort"

\* ---------------------------------------------------------------- C33
\* the base rust_main has settled on
BaseUsed == boot_locals.base.v

\* the p_vaddr of the first PT_DYNAMIC program header of the table AT_PHDR
\* and AT_PHNUM give
DynamicVaddr ==
    boot_in.phdrs[CHOOSE i \in 1 .. Len(boot_in.phdrs) :
                      /\ boot_in.phdrs[i].p_type = PT_DYNAMIC
                      /\ \A j \in 1 .. (i - 1) :
                             boot_in.phdrs[j].p_type # PT_DYNAMIC].p_vaddr

\* the address of the loader's dynamic table less that p_vaddr
BaseFromDynamic == sub64(boot_in.dynv, Usize(DynamicVaddr))

\* the value of AT_BASE in the auxiliary vector the loader is started with
AtBase0 ==
    AuxVal0(CHOOSE k \in 1 .. AuxCount0 : AuxTag0(k) = Usize(AT_BASE))

\* C33 (as stated): the base used for the self-relocation is the address of
\* the loader's dynamic table minus the p_vaddr of the PT_DYNAMIC program
\* header found through AT_PHDR / AT_PHNUM, whatever the value of AT_BASE.
C33_BaseFromDynamic ==
    boot_locals.base.some => BaseUsed = BaseFromDynamic

\* C33 (amended): the base used for the self-relocation is the value of
\* AT_BASE when that is not 0; when AT_BASE is 0 it is the address of the
\* loader's dynamic table minus the p_vaddr of the first PT_DYNAMIC program
\* header found through AT_PHDR / AT_PHNUM.
C33_BaseFromAtBaseOrDynamic ==
    boot_locals.base.some =>
        IF AtBase0 # Usize(0)
        THEN BaseUsed = AtBase0
        ELSE BaseUsed = BaseFromDynamic

\* the case of C33 happens: started as the program (AT_BASE = 0) at a load
\* base other than 0, the loader computed its base from PT_DYNAMIC and has
\* relocated itself with it
C33_Witness ==
    /\ boot_pc = "relocated"
    /\ AtBase0 = Usize(0)
    /\ boot_in.load_base # Usize(0)
    /\ BaseUsed = boot_in.load_base
    /\ BaseUsed = BaseFromDynamic

\* the other case: started as an interpreter (AT_BASE is its load base, the
\* program headers are the executable's), the loader took AT_BASE
C33_WitnessAtBase ==
    /\ boot_pc = "relocated"
    /\ AtBase0 # Usize(0)
    /\ BaseUsed = boot_in.load_base
    /\ BaseUsed # BaseFromDynamic

=============================================================================
